---- MODULE Spec2Model ----
(***************************************************************************)
(* radicale-sql: the SQL storage backend of a Radicale server.             *)
(* The five tables of db.py are the state; every public operation of       *)
(* Collection and Storage is one transaction (engine.begin) and one        *)
(* action.  Hashes (sha256, get_etag) are modelled as injective            *)
(* constructors, random values (uuid4, os.urandom) as fresh numbers.       *)
(***************************************************************************)
EXTENDS Integers, Sequences, FiniteSets, TLC

VARIABLES collection, collection_metadata, collection_state, item,
          item_history, rnd, now, last, prev, issued, tx

tables == <<collection, collection_metadata, collection_state, item, item_history>>
vars == <<collection, collection_metadata, collection_state, item,
          item_history, rnd, now, last, prev, issued, tx>>

(***************************************************************************)
(* Bounds of the model.                                                    *)
(***************************************************************************)
\* operations in one behaviour (each advances the clock `now` by one tick):
\* of Spec, of SpecSync and of SpecMove
MaxOps == 2
MaxSyncOps == 5
MaxMoveOps == 5
\* of SpecDelete
MaxDeleteOps == 4
\* of SpecUpload
MaxUploadOps == 3
\* of SpecReplace
MaxReplaceOps == 3
\* of SpecLookup
MaxLookupOps == 4
\* of SpecChanges
MaxChangeOps == 5
\* of SpecInit: the collections created before stores are initialised
MaxInitOps == 2
\* of SpecMeta: the operations on the store
MaxMetaOps == 5
\* of SpecPurge: the operations on the store
MaxPurgeOps == 4
\* of SpecMoveRace: the uploads that commit before two moves overlap
MaxMoveRaceOps == 2
\* of SpecRace: the operations that commit before two requests overlap
MaxRaceOps == 3

(***************************************************************************)
(* Values.                                                                 *)
(***************************************************************************)
\* SQL NULL in a Uuid column (collection.parent_id of the root)
Null == 0
\* id of the root collection row and of the "domain" collection row
RootId == 8
DomainId == 9
\* collection.tag: None, 0 (VADDRESSBOOK), 1 (VCALENDAR)
NullTag == -1

\* A string that is used as a name: `uuid` is the UUID it parses to (0 when
\* uuid.UUID rejects it), `form` tells apart two spellings of one UUID,
\* `ext` is the file extension that follows the stem.
Name(txt) == [txt |-> txt, uuid |-> 0, form |-> "", ext |-> ""]
UuidName(u, form) == [txt |-> "", uuid |-> u, form |-> form, ext |-> ""]
WithExt(stem, ext) == [stem EXCEPT !.ext = ext]
Stem(href) == [href EXCEPT !.ext = ""]
NullName == Name("<NULL>")
NoName == Name("")

\* is_valid_uuid(val): uuid.UUID(str(val)) does not raise
is_valid_uuid(val) == val.ext = "" /\ val.uuid # 0
\* uuid.UUID(s) and str(u): parsing drops the spelling, printing is canonical
UUID(val) == val.uuid
str(u) == UuidName(u, "canon")

\* radicale_item.get_etag(text): a quoted sha256, never the empty string
NoEtag == <<>>
get_etag(text) == <<text>>
\* item.etag if item else "" ; an absent item is the text ""
ItemEtag(text) == IF text = "" THEN NoEtag ELSE get_etag(text)

\* a faulty variant: the chain is not rehashed
ChainHashKept(history_etag, etag) == history_etag
\* get_etag(history_etag + "/" + etag).strip('"') : the chain grows by one link
ChainHash(history_etag, etag) == Append(history_etag, etag)
\* binascii.hexlify(os.urandom(16)) : a fresh chain seed
Seed(n) == <<n>>
\* dict.get(href) of a missing key
NoneHe == <<>>

(***************************************************************************)
(* Sync tokens.                                                            *)
(***************************************************************************)
_prefix == "http://radicale.org/ns/sync/"
TokenNameLen == 64
LowerHex == {"0", "1", "2", "3", "4", "5", "6", "7", "8", "9",
             "a", "b", "c", "d", "e", "f"}
\* sha256().hexdigest() of the folded pairs: 64 lowercase hex characters
Digest(pairs) == [kind |-> "digest", digest |-> pairs, chars |-> <<>>]
\* a token suffix typed by a caller, character by character
Chars(cs) == [kind |-> "chars", digest |-> <<>>, chars |-> cs]
Token(prefix, name) == [prefix |-> prefix, name |-> name]
EmptyToken == Token("", Chars(<<>>))

\* a faulty variant: string.hexdigits without .lower(), any length
check_token_name_anycase(token_name) ==
    IF token_name.kind = "digest"
    THEN TRUE
    ELSE \A i \in 1..Len(token_name.chars) :
             token_name.chars[i] \in LowerHex \cup {"A", "B", "C", "D", "E", "F"}

check_token_name(token_name) ==
    IF token_name.kind = "digest"
    THEN TRUE
    ELSE /\ Len(token_name.chars) = TokenNameLen
         /\ \A i \in 1..Len(token_name.chars) : token_name.chars[i] \in LowerHex

(***************************************************************************)
(* The database as one value: what a connection reads and writes.          *)
(***************************************************************************)
DB == [collection |-> collection, collection_metadata |-> collection_metadata,
       collection_state |-> collection_state, item |-> item,
       item_history |-> item_history, rnd |-> rnd]

\* uuid.uuid4() / os.urandom: the next unused number
uuid4(db) == db.rnd + 1
Drawn(db) == [db EXCEPT !.rnd = db.rnd + 1]

Range(s) == {s[i] : i \in 1..Len(s)}

RECURSIVE SetToSeqs(_)
\* every enumeration order of a set of rows (a SELECT without ORDER BY)
SetToSeqs(S) ==
    IF S = {} THEN {<<>>}
    ELSE UNION {{<<x>> \o t : t \in SetToSeqs(S \ {x})} : x \in S}

ItemRows(db, cid, href) ==
    {r \in db.item : r.collection_id = cid /\ r.name = href}
HistoryRows(db, cid, href) ==
    {r \in db.item_history : r.collection_id = cid /\ r.name = href}

(***************************************************************************)
(* Storage._collection_updated, Storage._item_updated                      *)
(***************************************************************************)
_collection_updated(db, collection_id, t) ==
    [db EXCEPT !.collection =
        {IF c.id = collection_id THEN [c EXCEPT !.modified_at = t] ELSE c
         : c \in db.collection}]

\* UPDATE ... RETURNING ... .one(): NoResultFound when no row matches
_item_updated(db, collection_id, href, t) ==
    LET rows == ItemRows(db, collection_id, href)
    IN  IF Cardinality(rows) # 1
        THEN [ok |-> FALSE, db |-> db]
        ELSE LET db1 == [db EXCEPT !.item =
                            {IF r \in rows THEN [r EXCEPT !.modified_at = t] ELSE r
                             : r \in db.item}]
             IN  [ok |-> TRUE, db |-> _collection_updated(db1, collection_id, t)]

\* a faulty variant of _update_history_etag: the chain advances on every call
_update_history_etag_always(db, cid, href, etag, t) ==
    LET rows == HistoryRows(db, cid, href)
        exists == rows # {}
        old_he == IF exists THEN (CHOOSE r \in rows : TRUE).history_etag
                  ELSE Seed(uuid4(db))
        db0 == IF exists THEN db ELSE Drawn(db)
        new_he == Append(old_he, etag)
        newrow == [collection_id |-> cid, name |-> href, etag |-> etag,
                   history_etag |-> new_he, modified_at |-> t]
    IN  [ok |-> TRUE,
         db |-> [db0 EXCEPT !.item_history = (db.item_history \ rows) \cup {newrow}],
         history_etag |-> new_he]

(***************************************************************************)
(* Collection._update_history_etag                                         *)
(***************************************************************************)
_update_history_etag(db, cid, href, etag, t) ==
    LET rows == HistoryRows(db, cid, href)
        exists == rows # {}
        row == CHOOSE r \in rows : TRUE
        cache_etag == IF exists THEN row.etag ELSE NoEtag
        old_he == IF exists THEN row.history_etag ELSE Seed(uuid4(db))
        db0 == IF exists THEN db ELSE Drawn(db)
        new_he == ChainHash(old_he, etag)
        newrow == [collection_id |-> cid, name |-> href, etag |-> etag,
                   history_etag |-> new_he, modified_at |-> t]
    IN  IF Cardinality(rows) > 1
        THEN [ok |-> FALSE, db |-> db, history_etag |-> NoneHe]
        ELSE IF etag # cache_etag
        THEN [ok |-> TRUE,
              db |-> [db0 EXCEPT !.item_history = (db.item_history \ rows) \cup {newrow}],
              history_etag |-> new_he]
        ELSE [ok |-> TRUE, db |-> db0, history_etag |-> old_he]

(***************************************************************************)
(* Collection._get_multi                                                   *)
(***************************************************************************)
\* Optional[Item]: the item of a row, or None
SomeItem(row) == [some |-> TRUE, text |-> row.data]
None == [some |-> FALSE, text |-> ""]

\* hrefs is the list the caller passed; rows is the result of the SELECT in
\* the order the database returned it, rest the iteration order of the set
\* hrefs_set - hrefs_set_have
_get_multi(db, cid, hrefs, rows, rest) ==
    IF hrefs = <<>> THEN <<>>
    ELSE [i \in 1..Len(rows) |-> <<rows[i].name, SomeItem(rows[i])>>]
         \o [i \in 1..Len(rest) |-> <<rest[i], None>>]
\* the rows the SELECT of _get_multi matches
MultiRows(db, cid, hrefs) ==
    {r \in db.item : r.collection_id = cid /\ r.name \in Range(hrefs)}

(***************************************************************************)
(* Collection._upload                                                      *)
(***************************************************************************)
\* the INSERT of _upload: item.id is the primary key of the whole table and
\* collection_id is a foreign key
InsertItem(db, row) ==
    IF \/ \E r \in db.item : r.id = row.id
       \/ \E r \in db.item : r.collection_id = row.collection_id /\ r.name = row.name
       \/ ~ \E c \in db.collection : c.id = row.collection_id
    THEN [ok |-> FALSE, db |-> db]
    ELSE [ok |-> TRUE, db |-> [db EXCEPT !.item = db.item \cup {row}]]

\* the UPDATE of _upload: WHERE collection_id, name AND id all match
UpdateItem(db, cid, href, item_id, text, t) ==
    [db EXCEPT !.item =
        {IF r.collection_id = cid /\ r.name = href /\ r.id = item_id
         THEN [r EXCEPT !.data = text, !.modified_at = t] ELSE r
         : r \in db.item}]

\* the href is kept as the caller gave it
RewrittenNot(href, item_id) == href
\* _upload, lines 226 and 234: href = str(item_id) + ".vcf" / ".ics"
Rewritten(href, item_id) == WithExt(str(item_id), href.ext)

_upload(db, cid, href, text, t) ==
    IF href.ext \notin {"vcf", "ics"}
    THEN [ok |-> FALSE, db |-> db, href |-> href]
    ELSE
    LET valid == is_valid_uuid(Stem(href))
        item_id == IF valid THEN UUID(Stem(href)) ELSE uuid4(db)
        db0 == IF valid THEN db ELSE Drawn(db)
        href1 == IF valid THEN href ELSE Rewritten(href, item_id)
        row == [id |-> item_id, collection_id |-> cid, name |-> href1,
                data |-> text, modified_at |-> t]
        ins == InsertItem(db0, row)
        upd == _item_updated(UpdateItem(db0, cid, href1, item_id, text, t), cid, href1, t)
        wr == IF ItemRows(db0, cid, href1) = {}
              THEN [ok |-> ins.ok, db |-> _collection_updated(ins.db, cid, t)]
              ELSE upd
        hist == _update_history_etag(wr.db, cid, href1, ItemEtag(text), t)
    IN  IF ~wr.ok THEN [ok |-> FALSE, db |-> wr.db, href |-> href1]
        ELSE IF ~hist.ok THEN [ok |-> FALSE, db |-> hist.db, href |-> href1]
        ELSE [ok |-> ItemRows(hist.db, cid, href1) # {}, db |-> hist.db, href |-> href1]

(***************************************************************************)
(* Collection._delete                                                      *)
(***************************************************************************)
\* a faulty variant: the rows of the child tables stay
DeleteCollectionsNoCascade(db, ids) ==
    [ok |-> TRUE, db |-> [db EXCEPT !.collection = {c \in @ : c.id \notin ids}]]

\* DELETE FROM collection WHERE id IN ids.  The child tables cascade; the
\* self-reference collection.parent_id does not, so a surviving child row
\* makes the statement fail.
DeleteCollections(db, ids) ==
    LET left == {c \in db.collection : c.id \notin ids}
    IN  IF \E c \in left : c.parent_id \in ids
        THEN [ok |-> FALSE, db |-> db]
        ELSE [ok |-> TRUE,
              db |-> [db EXCEPT
                 !.collection = left,
                 !.collection_metadata = {m \in @ : m.collection_id \notin ids},
                 !.collection_state = {s \in @ : s.collection_id \notin ids},
                 !.item = {r \in @ : r.collection_id \notin ids},
                 !.item_history = {h \in @ : h.collection_id \notin ids}]]

\* a faulty variant of _delete: the row is touched but not removed
_delete_kept(db, cid, href, t) == _item_updated(db, cid, href, t)

\* a faulty variant of _delete: an href that names no item is passed over
_delete_silent(db, cid, href, t) ==
    [ok |-> TRUE, db |-> [db EXCEPT !.item = @ \ ItemRows(db, cid, href)]]

\* href given: the item row only; the ItemHistory row is not touched
_delete(db, cid, href, t) ==
    LET upd == _item_updated(db, cid, href, t)
    IN  IF ~upd.ok THEN [ok |-> FALSE, db |-> upd.db]
        ELSE [ok |-> TRUE,
              db |-> [upd.db EXCEPT !.item = @ \ ItemRows(upd.db, cid, href)]]

\* href None: the collection row itself
_delete_collection(db, cid) ==
    DeleteCollections(db, {c.id : c \in {c \in db.collection : c.id = cid}})

(***************************************************************************)
(* Collection._set_meta                                                    *)
(***************************************************************************)
\* props: a dict, as the set of its <<key, value>> pairs
MetaRows(cid, kv) == {[collection_id |-> cid, key |-> p[1], value |-> p[2]] : p \in kv}

\* insert().values([...]) of the pairs: with no pair the INSERT names no
\* value for the primary key and fails
InsertMeta(db, cid, kv) ==
    IF kv = {} \/ ~ \E c \in db.collection : c.id = cid
    THEN [ok |-> FALSE, db |-> db]
    ELSE [ok |-> TRUE,
          db |-> [db EXCEPT !.collection_metadata = @ \cup MetaRows(cid, kv)]]

_set_meta(db, cid, kv, t) ==
    LET db1 == [db EXCEPT !.collection_metadata = {m \in @ : m.collection_id # cid}]
        ins == InsertMeta(db1, cid, kv)
    IN  IF ~ins.ok THEN [ok |-> FALSE, db |-> ins.db]
        ELSE [ok |-> TRUE, db |-> _collection_updated(ins.db, cid, t)]

_get_meta(db, cid) ==
    {<<m.key, m.value>> : m \in {m \in db.collection_metadata : m.collection_id = cid}}

(***************************************************************************)
(* Collection._sync                                                        *)
(***************************************************************************)
\* _get_all: the live items of the collection
_get_all(db, cid) == {r \in db.item : r.collection_id = cid}

\* _get_deleted_history_refs: ItemHistory LEFT JOIN Item WHERE item.id IS NULL
_get_deleted_history_refs(db, cid) ==
    {h.name : h \in {h \in db.item_history :
                        /\ h.collection_id = cid
                        /\ ItemRows(db, cid, h.name) = {}}}

\* the columns of the item_history table, db.py:150-189
HistoryColumns == {"id", "collection_id", "modified_at", "name", "etag", "history_etag"}

\* _delete_history_refs: the DELETE is built from item_history_table.c.href,
\* which raises when the table has no such column; otherwise it removes the
\* rows of the collection that _get_deleted_history_refs names and that were
\* modified before now - max_sync_token_age
_delete_history_refs(db, cid, t, max_sync_token_age) ==
    IF "href" \notin HistoryColumns
    THEN [ok |-> FALSE, err |-> "AttributeError", db |-> db]
    ELSE [ok |-> TRUE, err |-> "",
          db |-> [db EXCEPT !.item_history =
                    {h \in @ : ~ /\ h.name \in _get_deleted_history_refs(db, cid)
                                 /\ h.collection_id = cid
                                 /\ h.modified_at < t - max_sync_token_age}]]

\* a Python dict as the sequence of its <<key, value>> pairs, in insertion order
DictKeys(d) == {d[i][1] : i \in 1..Len(d)}
DictGet(d, k) ==
    IF k \in DictKeys(d)
    THEN LET i == CHOOSE i \in 1..Len(d) : d[i][1] = k IN d[i][2]
    ELSE NoneHe

\* json.dumps(state).encode() and json.loads(row.state.decode())
JsonDumps(d) == [json |-> d]
JsonLoads(blob) == blob.json

\* for href, item in itertools.chain(live, tombstones): the loop of lines
\* 654-670 over `entries`, a sequence of <<href, text>> (text "" for None)
RECURSIVE SyncLoop(_, _, _, _, _)
SyncLoop(db, cid, entries, state, t) ==
    IF entries = <<>> THEN [ok |-> TRUE, db |-> db, state |-> state]
    ELSE LET href == Head(entries)[1]
             text == Head(entries)[2]
         IN  IF href \in DictKeys(state)
             THEN SyncLoop(db, cid, Tail(entries), state, t)
             ELSE LET u == _update_history_etag(db, cid, href, ItemEtag(text), t)
                  IN  IF ~u.ok THEN [ok |-> FALSE, db |-> u.db, state |-> state]
                      ELSE SyncLoop(u.db, cid, Tail(entries),
                                    Append(state, <<href, u.history_etag>>), t)

\* a faulty variant of the comparison: no name of `state` is reported
DifferingNone(state, old_state) == <<>>

\* a faulty variant of the comparison: every name of `state` is reported
DifferingAll(state, old_state) == [i \in 1..Len(state) |-> state[i][1]]

\* lines 723-729: names of `state` that differ, then names only in old_state
RECURSIVE Differing(_, _)
Differing(state, old_state) ==
    IF state = <<>> THEN <<>>
    ELSE (IF Head(state)[2] # DictGet(old_state, Head(state)[1])
          THEN <<Head(state)[1]>> ELSE <<>>) \o Differing(Tail(state), old_state)

RECURSIVE OnlyOld(_, _)
OnlyOld(old_state, state) ==
    IF old_state = <<>> THEN <<>>
    ELSE (IF Head(old_state)[1] \notin DictKeys(state)
          THEN <<Head(old_state)[1]>> ELSE <<>>) \o OnlyOld(Tail(old_state), state)

\* lines 643-649: the token the caller sent
TokenAccepted(old_token) ==
    \/ old_token = EmptyToken
    \/ /\ old_token.prefix = _prefix
       /\ check_token_name(old_token.name)

StateRows(db, cid, token_name) ==
    {s \in db.collection_state : s.collection_id = cid /\ s.name = token_name}

\* the INSERT of a snapshot.  The table has no key of any kind: `ctid` is
\* the physical identity that tells two equal rows apart.
InsertState(db, cid, token_name, state) ==
    [Drawn(db) EXCEPT !.collection_state = @ \cup
        {[collection_id |-> cid, name |-> token_name,
          state |-> JsonDumps(state), ctid |-> uuid4(db)]}]

\* `live` and `dead` are the orders in which the two SELECTs of the loop
\* return their rows
\* the new token is never taken for the old one
UnchangedNever(token_name, old_token_name) == FALSE
\* _sync, line 675: if token_name == old_token_name
Unchanged(token_name, old_token_name) == token_name = old_token_name

_sync(db, cid, old_token, live, dead, t) ==
    IF ~TokenAccepted(old_token)
    THEN [ok |-> FALSE, db |-> db, token |-> EmptyToken, changes |-> <<>>]
    ELSE
    LET old_token_name == old_token.name
        entries == [i \in 1..Len(live) |-> <<live[i].name, live[i].data>>]
                   \o [i \in 1..Len(dead) |-> <<dead[i], "">>]
        loop == SyncLoop(db, cid, entries, <<>>, t)
        state == loop.state
        token_name == Digest(state)
        token == Token(_prefix, token_name)
        old_rows == StateRows(loop.db, cid, old_token_name)
        old_state == IF old_token = EmptyToken \/ old_rows = {}
                     THEN <<>>
                     ELSE JsonLoads((CHOOSE s \in old_rows : TRUE).state)
        db2 == IF StateRows(loop.db, cid, token_name) = {}
               THEN InsertState(loop.db, cid, token_name, state)
               ELSE loop.db
    IN  IF ~loop.ok
        THEN [ok |-> FALSE, db |-> loop.db, token |-> EmptyToken, changes |-> <<>>]
        ELSE IF Unchanged(token_name, old_token_name)
        THEN [ok |-> TRUE, db |-> loop.db, token |-> token, changes |-> <<>>]
        ELSE IF Cardinality(old_rows) > 1 \/ Cardinality(StateRows(loop.db, cid, token_name)) > 1
        THEN [ok |-> FALSE, db |-> loop.db, token |-> EmptyToken, changes |-> <<>>]
        ELSE [ok |-> TRUE, db |-> db2, token |-> token,
              changes |-> Differing(state, old_state) \o OnlyOld(old_state, state)]

(***************************************************************************)
(* Storage._discover (depth "0")                                           *)
(***************************************************************************)
\* select_collection_or_item: the UNION ALL of collection and item rows
CollectionOrItem(db) ==
    {[id |-> c.id, parent_id |-> c.parent_id, modified_at |-> c.modified_at,
      name |-> c.name, data |-> "", type_ |-> "collection"] : c \in db.collection}
    \cup
    {[id |-> r.id, parent_id |-> r.collection_id, modified_at |-> r.modified_at,
      name |-> r.name, data |-> r.data, type_ |-> "item"] : r \in db.item}

\* one joined row per chain <<data, t0, t1, ...>>: each alias is the parent of
\* the one before it and carries the next-outer segment as its child's name;
\* the outermost alias has no parent
RECURSIVE Joined(_, _)
Joined(db, path_parts) ==
    IF path_parts = <<>>
    THEN {<<x>> : x \in {x \in CollectionOrItem(db) : x.parent_id = Null}}
    ELSE LET outer == Joined(db, SubSeq(path_parts, 1, Len(path_parts) - 1))
             p == path_parts[Len(path_parts)]
         IN  UNION {{<<x>> \o c : x \in {x \in CollectionOrItem(db) :
                                            x.name = p /\ x.parent_id = c[1].id}}
                    : c \in outer}

Handle(type_, id, path, text) == [type_ |-> type_, id |-> id, path |-> path, text |-> text]

\* the result list: empty, one collection handle, or one item
_discover(db, path_parts) ==
    IF path_parts = <<>>
    THEN [ok |-> TRUE, found |-> <<Handle("collection", RootId, <<>>, "")>>]
    ELSE LET rows == Joined(db, path_parts)
             self_collection == (CHOOSE c \in rows : TRUE)[1]
         IN  IF rows = {} THEN [ok |-> TRUE, found |-> <<>>]
             ELSE IF Cardinality(rows) > 1 THEN [ok |-> FALSE, found |-> <<>>]
             ELSE IF self_collection.type_ # "collection"
             THEN [ok |-> TRUE,
                   found |-> <<Handle("item", self_collection.parent_id,
                                      <<self_collection.name>>, self_collection.data)>>]
             ELSE [ok |-> TRUE,
                   found |-> <<Handle("collection", self_collection.id, path_parts, "")>>]

(***************************************************************************)
(* Storage._move                                                           *)
(***************************************************************************)
\* a faulty variant of _move: the row changes collection but keeps its name
_move_kept_name(db, src_collection_id, href, text, dst_collection_id, to_href, t) ==
    [ok |-> \E c \in db.collection : c.id = dst_collection_id,
     db |-> [db EXCEPT !.item =
               {IF r \in ItemRows(db, src_collection_id, href)
                THEN [r EXCEPT !.collection_id = dst_collection_id, !.modified_at = t]
                ELSE r : r \in db.item \ ItemRows(db, dst_collection_id, to_href)}]]

\* item: the handle the caller holds (its collection, href and text)
_move(db, src_collection_id, href, text, dst_collection_id, to_href, t) ==
    LET db1 == [db EXCEPT !.item = @ \ ItemRows(db, dst_collection_id, to_href)]
        src == ItemRows(db1, src_collection_id, href)
        db2 == [db1 EXCEPT !.item =
                   {IF r \in src
                    THEN [r EXCEPT !.collection_id = dst_collection_id,
                                   !.name = to_href, !.modified_at = t]
                    ELSE r : r \in db1.item}]
        db3 == _collection_updated(
                   _collection_updated(db2, src_collection_id, t), dst_collection_id, t)
        h1 == _update_history_etag(db3, dst_collection_id, to_href, ItemEtag(text), t)
        h2 == _update_history_etag(h1.db, src_collection_id, href, NoEtag, t)
    IN  IF ~ \E c \in db.collection : c.id = dst_collection_id
        THEN [ok |-> FALSE, db |-> db1]
        ELSE IF ~h1.ok THEN [ok |-> FALSE, db |-> h1.db]
        ELSE [ok |-> h2.ok, db |-> h2.db]

(***************************************************************************)
(* Storage._create_collection                                              *)
(***************************************************************************)
\* props.get("tag")
PropsTag(kv) ==
    IF \E p \in kv : p[1] = "tag" THEN (CHOOSE p \in kv : p[1] = "tag")[2] ELSE ""

\* a faulty variant of the walk: every segment is inserted under the root
RECURSIVE WalkPathFlat(_, _, _, _, _, _)
WalkPathFlat(db, path, i, parent_id, collection_tag, t) ==
    IF i >= Len(path) THEN [ok |-> TRUE, db |-> db, parent_id |-> parent_id]
    ELSE LET id == IF i = 1 THEN UUID(path[2]) ELSE uuid4(db)
             row == [id |-> id, parent_id |-> RootId, name |-> path[i + 1],
                     tag |-> collection_tag, modified_at |-> t]
         IN  IF \E x \in db.collection : x.id = id \/ (x.parent_id = RootId /\ x.name = row.name)
             THEN [ok |-> FALSE, db |-> db, parent_id |-> parent_id]
             ELSE WalkPathFlat([Drawn(db) EXCEPT !.collection = @ \cup {row}],
                               path, i + 1, id, collection_tag, t)

\* for i, p in enumerate(path): find the segment under parent_id or insert it
\* (i counts from 0 as in the source)
RECURSIVE WalkPath(_, _, _, _, _, _)
WalkPath(db, path, i, parent_id, collection_tag, t) ==
    IF i >= Len(path) THEN [ok |-> TRUE, db |-> db, parent_id |-> parent_id]
    ELSE LET p == path[i + 1]
             c == {c \in db.collection : c.parent_id = parent_id /\ c.name = p}
             id == IF i = 1 THEN UUID(path[2]) ELSE uuid4(db)
             db0 == IF i = 1 THEN db ELSE Drawn(db)
             row == [id |-> id, parent_id |-> parent_id, name |-> p,
                     tag |-> collection_tag, modified_at |-> t]
         IN  IF c # {}
             THEN WalkPath(db, path, i + 1, (CHOOSE x \in c : TRUE).id, collection_tag, t)
             ELSE IF \E x \in db.collection : x.id = id
             THEN [ok |-> FALSE, db |-> db, parent_id |-> parent_id]
             ELSE WalkPath([db0 EXCEPT !.collection = @ \cup {row}],
                           path, i + 1, id, collection_tag, t)

\* for i in items: c._upload(i.uid + suffix, i, connection=connection)
RECURSIVE UploadAll(_, _, _, _, _)
UploadAll(db, cid, items, suffix, t) ==
    IF items = <<>> THEN [ok |-> TRUE, db |-> db]
    ELSE LET u == _upload(db, cid, WithExt(Head(items).uid, suffix), Head(items).text, t)
         IN  IF ~u.ok THEN [ok |-> FALSE, db |-> u.db]
             ELSE UploadAll(u.db, cid, Tail(items), suffix, t)

\* paths of any depth are walked
PathNeverTooDeep(path) == FALSE
\* _create_collection, lines 1040-1041: elif len(path) > 2: raise ValueError
PathTooDeep(path) == Len(path) > 2

\* items and props are records [given, ...]: given = FALSE is Python's None
_create_collection(db, href, items, props, t) ==
    LET collection_tag ==
            IF props.given /\ PropsTag(props.kv) = "VADDRESSBOOK" THEN 0
            ELSE IF props.given /\ PropsTag(props.kv) = "VCALENDAR" THEN 1
            ELSE NullTag
        rename == Len(href) = 2 /\ ~is_valid_uuid(href[2])
        path == IF rename THEN <<href[1], str(uuid4(db))>> ELSE href
        db0 == IF rename THEN Drawn(db) ELSE db
        walk == WalkPath(db0, path, 0, RootId, collection_tag, t)
        parent_id == walk.parent_id
        drop == DeleteCollections(walk.db,
                    {c.id : c \in {c \in walk.db.collection : c.parent_id = parent_id}})
        db1 == IF items.given \/ props.given
               THEN [drop.db EXCEPT
                       !.collection_metadata = {m \in @ : m.collection_id # parent_id},
                       !.item = {r \in @ : r.collection_id # parent_id}]
               ELSE walk.db
        meta == IF props.given THEN InsertMeta(db1, parent_id, props.kv)
                ELSE [ok |-> TRUE, db |-> db1]
        suffix == IF PropsTag(props.kv) = "VADDRESSBOOK" THEN "vcf"
                  ELSE IF PropsTag(props.kv) = "VCALENDAR" THEN "ics"
                  ELSE "bin"
        up == IF props.given /\ (\E p \in props.kv : p[1] = "tag") /\ items.given
              THEN UploadAll(meta.db, parent_id, items.seq, suffix, t)
              ELSE [ok |-> TRUE, db |-> meta.db]
        c == Handle("collection", parent_id, path, "")
        none == Handle("", Null, <<>>, "")
    IN  IF PathTooDeep(href) THEN [ok |-> FALSE, db |-> db, c |-> none, err |-> "path"]
        ELSE IF ~walk.ok THEN [ok |-> FALSE, db |-> walk.db, c |-> c, err |-> "insert"]
        ELSE IF (items.given \/ props.given) /\ ~drop.ok
        THEN [ok |-> FALSE, db |-> drop.db, c |-> c, err |-> "drop"]
        ELSE IF ~meta.ok THEN [ok |-> FALSE, db |-> meta.db, c |-> c, err |-> "meta"]
        ELSE IF ~up.ok THEN [ok |-> FALSE, db |-> up.db, c |-> c, err |-> "upload"]
        ELSE [ok |-> TRUE, db |-> up.db, c |-> c, err |-> ""]

(***************************************************************************)
(* What the caller of the last operation saw (last), the successful item   *)
(* write before it (prev), and, for every token a sync has returned, the   *)
(* writes its collection has taken since (issued).  These three record the *)
(* run; no operation reads them.                                           *)
(***************************************************************************)
NoBorn == [n |-> -1, writes |-> {}]
NoSince == [n |-> -1, writes |-> {}, born |-> NoBorn, content |-> {}]
NoRec == [op |-> "none", ok |-> TRUE, coll |-> Null, href |-> NoName,
          stored |-> NoName, text |-> "", heBefore |-> NoneHe, eff |-> "",
          dcoll |-> Null, dhref |-> NoName, arg |-> EmptyToken, since |-> NoSince,
          token |-> EmptyToken, changes |-> <<>>, path |-> <<>>, found |-> <<>>,
          err |-> "", items |-> [given |-> FALSE, seq |-> <<>>],
          props |-> [given |-> FALSE, kv |-> {}], hrefs |-> <<>>, got |-> <<>>,
          age |-> 0]

Write(op, href, eff) == [op |-> op, href |-> href, eff |-> eff]

Logged(iss, cid, w) ==
    {IF e.coll = cid
     THEN [e EXCEPT !.n = IF @ < 2 THEN @ + 1 ELSE @, !.writes = @ \cup {w}]
     ELSE e : e \in iss}

\* the hrefs of a collection with their payloads
ContentOf(cid) == {<<r.name, r.data>> : r \in {r \in item : r.collection_id = cid}}

\* a sync on cid returned token_name, asked with a token that had seen `since`
Returned(iss, cid, token_name, since) ==
    {e \in iss : ~(e.coll = cid /\ e.name = token_name)}
    \cup {[coll |-> cid, name |-> token_name, n |-> 0, writes |-> {},
            born |-> [n |-> since.n, writes |-> since.writes],
            content |-> ContentOf(cid)]}

SinceOf(cid, token) ==
    LET es == {e \in issued : e.coll = cid /\ e.name = token.name}
    IN  IF token.prefix = _prefix /\ es # {}
        THEN LET e == CHOOSE e \in es : TRUE
             IN  [n |-> e.n, writes |-> e.writes, born |-> e.born, content |-> e.content]
        ELSE NoSince

HistoryEtagOf(db, cid, href) ==
    LET rows == HistoryRows(db, cid, href)
    IN  IF rows = {} THEN NoneHe ELSE (CHOOSE r \in rows : TRUE).history_etag

DataOf(db, cid, href) ==
    LET rows == ItemRows(db, cid, href)
    IN  IF rows = {} THEN "" ELSE (CHOOSE r \in rows : TRUE).data

Keep(rec) ==
    IF rec.ok /\ rec.op \in {"upload", "delete", "move", "create_collection"}
    THEN rec ELSE NoRec

(***************************************************************************)
(* Connections that are open at the same time.  acquire_lock is a no-op,   *)
(* so two requests run their transactions side by side; tx[p] is the       *)
(* transaction of request p: the call and its arguments, the statement it  *)
(* is at (pc), the Python locals of the method, the rows it has written    *)
(* and not yet committed (ins, del) and the row and index locks it holds.  *)
(***************************************************************************)
Procs == {1, 2}
NoTables == [collection |-> {}, collection_metadata |-> {}, collection_state |-> {},
             item |-> {}, item_history |-> {}]
\* self._updated_at = None, line 118
NoTime == 0 - 1
TxIdle == [op |-> "idle", pc |-> "", status |-> "idle", err |-> "",
           overlap |-> FALSE,
           cid |-> Null, href |-> NoName, text |-> "", id |-> Null,
           dst |-> Null, to_href |-> NoName, path |-> <<>>, arg |-> <<>>,
           found |-> FALSE, i |-> 0, parent_id |-> Null,
           hcid |-> Null, hhref |-> NoName, hetag |-> NoEtag, ret |-> "",
           exists |-> FALSE, cache_etag |-> NoEtag, history_etag |-> NoneHe,
           entries |-> <<>>, dead_read |-> FALSE, state |-> <<>>,
           token |-> EmptyToken, new_row |-> FALSE, held |-> {},
           cached |-> FALSE, meta |-> {}, updated_at |-> NoTime, read_at |-> NoTime,
           ins |-> NoTables, del |-> NoTables, locks |-> {}]

(***************************************************************************)
(* One transaction: `with self._engine.begin() as c:` commits what the     *)
(* body wrote when it returns and rolls it back when it raises.            *)
(***************************************************************************)
\* a faulty variant: no rollback, what the body wrote stays
BeginNoRollback(r) == r.db
Begin(r) == IF r.ok THEN r.db ELSE DB

Transaction(budget, r, rec, iss) ==
    /\ now < budget
    /\ LET d == Begin(r)
       IN  /\ collection' = d.collection
           /\ collection_metadata' = d.collection_metadata
           /\ collection_state' = d.collection_state
           /\ item' = d.item
           /\ item_history' = d.item_history
           /\ rnd' = d.rnd
           /\ issued' = IF r.ok
                        THEN {e \in iss : \E c \in d.collection : c.id = e.coll}
                        ELSE issued
    /\ now' = now + 1
    /\ prev' = Keep(last)
    /\ last' = [rec EXCEPT !.ok = r.ok]
    /\ UNCHANGED tx

CollectionIds == {c.id : c \in collection}

(***************************************************************************)
(* The callers' inputs.                                                    *)
(***************************************************************************)
U1 == UuidName(1, "canon")
U2 == UuidName(2, "canon")
Texts == {"p", "q"}
UuidHrefs == {WithExt(U1, "vcf"), WithExt(U2, "vcf")}
UploadHrefs == UuidHrefs \cup {WithExt(Name("card"), "vcf"), WithExt(U1, "txt")}
PropsInputs == {[given |-> FALSE, kv |-> {}],
                [given |-> TRUE, kv |-> {}],
                [given |-> TRUE, kv |-> {<<"tag", "VADDRESSBOOK">>}],
                [given |-> TRUE, kv |-> {<<"tag", "VTODO">>}]}
ItemsInputs == {[given |-> FALSE, seq |-> <<>>],
                [given |-> TRUE, seq |-> <<[uid |-> U2, text |-> "q"]>>]}
CreatePaths == {<<Name("alice")>>, <<Name("alice"), U1>>, <<Name("alice"), Name("cal")>>,
                <<WithExt(U1, "vcf")>>, <<Name("alice"), U1, Name("x")>>}
Hex64 == [i \in 1..TokenNameLen |-> "a"]
MalformedTokens ==
    {Token(_prefix, Chars(SubSeq(Hex64, 1, TokenNameLen - 1))),
     Token(_prefix, Chars(Append(Hex64, "a"))),
     Token(_prefix, Chars([Hex64 EXCEPT ![1] = "A"])),
     Token(_prefix, Chars([Hex64 EXCEPT ![TokenNameLen] = "g"])),
     Token(_prefix, Chars(<<>>)),
     Token("http://radicale.org/ns/sync", Chars(Hex64))}
UnknownToken == Token(_prefix, Chars(Hex64))
\* the tokens earlier syncs returned, for any collection
IssuedTokens == {Token(_prefix, e.name) : e \in issued}
\* a returned token with its prefix cut off
CutTokens == {Token("", e.name) : e \in issued}

(***************************************************************************)
(* The operations.                                                         *)
(***************************************************************************)
Init ==
    /\ collection =
         {[id |-> RootId, parent_id |-> Null, name |-> NullName,
           tag |-> NullTag, modified_at |-> 0],
          [id |-> DomainId, parent_id |-> RootId, name |-> Name("domain"),
           tag |-> NullTag, modified_at |-> 0]}
    /\ collection_metadata = {}
    /\ collection_state = {}
    /\ item = {}
    /\ item_history = {}
    /\ rnd = DomainId
    /\ now = 0
    /\ last = NoRec
    /\ prev = NoRec
    /\ issued = {}
    /\ tx = [p \in Procs |-> TxIdle]

\* Collection.upload
Upload(budget, cids, hrefs, texts) ==
    \E cid \in cids \cap CollectionIds, href \in hrefs, text \in texts :
        LET r == _upload(DB, cid, href, text, now + 1)
            eff == IF ItemRows(DB, cid, r.href) = {} THEN "create"
                   ELSE IF DataOf(r.db, cid, r.href) # DataOf(DB, cid, r.href)
                   THEN "change" ELSE "same"
            rec == [NoRec EXCEPT !.op = "upload", !.coll = cid, !.href = href,
                                 !.stored = r.href, !.text = text, !.eff = eff,
                                 !.heBefore = HistoryEtagOf(DB, cid, r.href)]
        IN  Transaction(budget, r, rec, Logged(issued, cid, Write("upload", r.href, eff)))

\* Collection.delete(href)
Delete(budget, cids, hrefs) ==
    \E cid \in cids \cap CollectionIds, href \in hrefs :
        LET r == _delete(DB, cid, href, now + 1)
            rec == [NoRec EXCEPT !.op = "delete", !.coll = cid, !.href = href,
                                 !.stored = href, !.text = DataOf(DB, cid, href),
                                 !.heBefore = HistoryEtagOf(DB, cid, href)]
        IN  Transaction(budget, r, rec, Logged(issued, cid, Write("delete", href, "")))

\* Collection._delete_history_refs, in a transaction of its own
DeleteHistoryRefs(budget, cids, ages) ==
    \E cid \in cids \cap CollectionIds, age \in ages :
        LET r == _delete_history_refs(DB, cid, now + 1, age)
            rec == [NoRec EXCEPT !.op = "delete_history_refs", !.coll = cid,
                                 !.age = age, !.err = r.err]
        IN  Transaction(budget, r, rec, issued)

\* Collection.delete()
DeleteCollection(budget) ==
    \E cid \in CollectionIds :
        LET r == _delete_collection(DB, cid)
            full == /\ \E y \in item : y.collection_id = cid
                    /\ \E m \in collection_metadata : m.collection_id = cid
                    /\ \E h \in item_history : h.collection_id = cid
                    /\ \E x \in collection_state : x.collection_id = cid
            rec == [NoRec EXCEPT !.op = "delete_collection", !.coll = cid,
                                 !.eff = IF full THEN "full" ELSE ""]
        IN  Transaction(budget, r, rec, issued)

\* Storage.move: the item handle comes from a lookup of a live item
Move(budget, hrefs) ==
    \E src \in item, dst \in CollectionIds, to_href \in hrefs :
        LET r == _move(DB, src.collection_id, src.name, src.data, dst, to_href, now + 1)
            eff == IF \E h \in HistoryRows(DB, dst, to_href) : h.etag = ItemEtag(src.data)
                   THEN "same" ELSE "new"
            out == IF src.collection_id = dst THEN "move_within_out" ELSE "move_out"
            inw == IF src.collection_id = dst THEN "move_within_in" ELSE "move_in"
            rec == [NoRec EXCEPT !.op = "move", !.coll = src.collection_id,
                                 !.href = src.name, !.stored = src.name,
                                 !.text = src.data, !.dcoll = dst, !.dhref = to_href,
                                 !.eff = eff,
                                 !.heBefore = HistoryEtagOf(DB, src.collection_id, src.name)]
        IN  Transaction(budget, r, rec,
                Logged(Logged(issued, src.collection_id, Write(out, src.name, "")),
                       dst, Write(inw, to_href, eff)))

\* Collection.set_meta
SetMeta(budget) ==
    \E cid \in CollectionIds, props \in {p \in PropsInputs : p.given} :
        LET r == _set_meta(DB, cid, props.kv, now + 1)
            rec == [NoRec EXCEPT !.op = "set_meta", !.coll = cid, !.props = props]
        IN  Transaction(budget, r, rec, Logged(issued, cid, Write("set_meta", NoName, "")))

\* Collection.sync
Sync(budget, cids, tokens) ==
    \E cid \in cids \cap CollectionIds, old_token \in tokens :
    \E live \in SetToSeqs(_get_all(DB, cid)),
       dead \in SetToSeqs(_get_deleted_history_refs(DB, cid)) :
        LET r == _sync(DB, cid, old_token, live, dead, now + 1)
            rec == [NoRec EXCEPT !.op = "sync", !.coll = cid, !.arg = old_token,
                                 !.since = SinceOf(cid, old_token),
                                 !.token = r.token, !.changes = r.changes]
        IN  Transaction(budget, r, rec,
                        Returned(issued, cid, r.token.name, SinceOf(cid, old_token)))

\* Storage.create_collection
CreateCollectionAt(budget, paths) ==
    \E href \in paths, items \in ItemsInputs, props \in PropsInputs :
        LET r == _create_collection(DB, href, items, props, now + 1)
            rec == [NoRec EXCEPT !.op = "create_collection", !.path = href,
                                 !.coll = r.c.id, !.found = <<r.c>>, !.err = r.err,
                                 !.items = items, !.props = props,
                                 !.eff = IF items.given \/ props.given THEN "replace" ELSE ""]
        IN  Transaction(budget, r, rec,
                IF items.given \/ props.given
                THEN Logged(issued, r.c.id, Write("replace", NoName, ""))
                ELSE issued)

CreateCollection(budget) == CreateCollectionAt(budget, CreatePaths)

\* Collection.get_multi(hrefs): a read, nothing to commit
get_multi(budget, cids, hrefLists) ==
    \E cid \in cids \cap CollectionIds, hrefs \in hrefLists :
    \E rows \in SetToSeqs(MultiRows(DB, cid, hrefs)),
       rest \in SetToSeqs(Range(hrefs) \ {r.name : r \in MultiRows(DB, cid, hrefs)}) :
        /\ now < budget
        /\ now' = now + 1
        /\ last' = [NoRec EXCEPT !.op = "get_multi", !.coll = cid, !.hrefs = hrefs,
                                 !.got = _get_multi(DB, cid, hrefs, rows, rest)]
        /\ prev' = Keep(last)
        /\ UNCHANGED <<tables, rnd, issued, tx>>

\* Storage.discover(path, depth="0"): a read, nothing to commit
DiscoverAt(budget, paths) ==
    \E path \in paths :
        LET r == _discover(DB, path)
        IN  /\ now < budget
            /\ now' = now + 1
            /\ last' = [NoRec EXCEPT !.op = "discover", !.ok = r.ok, !.path = path,
                                     !.found = r.found]
            /\ prev' = Keep(last)
            /\ UNCHANGED <<tables, rnd, issued, tx>>

Discover(budget) ==
    \E path \in CreatePaths \cup {<<>>} \cup {last.found[i].path : i \in 1..Len(last.found)} :
        LET r == _discover(DB, path)
        IN  /\ now < budget
            /\ now' = now + 1
            /\ last' = [NoRec EXCEPT !.op = "discover", !.ok = r.ok, !.path = path,
                                     !.found = r.found]
            /\ prev' = Keep(last)
            /\ UNCHANGED <<tables, rnd, issued, tx>>

(***************************************************************************)
(* Statements of open transactions.  The database runs them READ           *)
(* COMMITTED: a statement reads what is committed plus what its own        *)
(* transaction wrote; a statement that writes a row, or an entry of a      *)
(* unique index, that another open transaction wrote waits for it.         *)
(***************************************************************************)
\* what the next statement of request p reads
View(p) ==
    [collection |-> (collection \ tx[p].del.collection) \cup tx[p].ins.collection,
     collection_metadata |-> (collection_metadata \ tx[p].del.collection_metadata)
                                \cup tx[p].ins.collection_metadata,
     collection_state |-> (collection_state \ tx[p].del.collection_state)
                                \cup tx[p].ins.collection_state,
     item |-> (item \ tx[p].del.item) \cup tx[p].ins.item,
     item_history |-> (item_history \ tx[p].del.item_history) \cup tx[p].ins.item_history,
     rnd |-> rnd]
\* the uncommitted rows of a transaction whose statements left the view v
Inserted(v) ==
    [collection |-> v.collection \ collection,
     collection_metadata |-> v.collection_metadata \ collection_metadata,
     collection_state |-> v.collection_state \ collection_state,
     item |-> v.item \ item,
     item_history |-> v.item_history \ item_history]
Deleted(v) ==
    [collection |-> collection \ v.collection,
     collection_metadata |-> collection_metadata \ v.collection_metadata,
     collection_state |-> collection_state \ v.collection_state,
     item |-> item \ v.item,
     item_history |-> item_history \ v.item_history]

\* what a statement locks: rows of item and collection through their primary
\* key and their unique constraint (db.py:24,56,109,147), rows of
\* item_history through (collection_id, name) when they are updated; an
\* INSERT into item_history or collection_state locks nothing, these tables
\* have no unique constraint on those columns
LockKey(k, a, b) == [k |-> k, a |-> a, b |-> b]
ItemKeys(rows) ==
    {LockKey("item.id", r.id, NoName) : r \in rows}
    \cup {LockKey("item.collection_id.name", r.collection_id, r.name) : r \in rows}
\* no lock on the collection row
CollectionKeysNone(rows) == {}
CollectionKeys(rows) ==
    {LockKey("collection.id", c.id, NoName) : c \in rows}
    \cup {LockKey("collection.parent_id.name", c.parent_id, c.name) : c \in rows}
HistoryKeys(rows) ==
    {LockKey("item_history", h.collection_id, h.name) : h \in rows}

\* the outcome of one statement: whether it raised, the view it leaves, the
\* locks it needs, the locals after it
Outcome(ok, err, view, keys, loc) ==
    [ok |-> ok, err |-> err, view |-> view, keys |-> keys, loc |-> loc]
Goto(l, pc) == [l EXCEPT !.pc = pc]
\* self._update_history_etag(href, item) is about to be called
CallHistory(l, cid, href, etag, ret) ==
    [l EXCEPT !.pc = "select_history", !.hcid = cid, !.hhref = href,
              !.hetag = etag, !.ret = ret]

\* the loop header of _sync, lines 654-662: the next name that is not yet in
\* `state`, then the second SELECT of the chain, then the end of the loop
RECURSIVE SyncIterate(_)
SyncIterate(l) ==
    IF l.entries # <<>>
    THEN IF Head(l.entries)[1] \in DictKeys(l.state)
         THEN SyncIterate([l EXCEPT !.entries = Tail(@)])
         ELSE CallHistory(l, l.cid, Head(l.entries)[1],
                          ItemEtag(Head(l.entries)[2]), "state[href]")
    ELSE IF ~l.dead_read THEN Goto(l, "get_deleted_history_refs")
    ELSE [l EXCEPT !.pc = "select_new_state",
                   !.token = Token(_prefix, Digest(l.state))]

\* where _update_history_etag returns to
Return(l) ==
    IF l.ret = "tombstone"
    THEN CallHistory(l, l.cid, l.href, NoEtag, "commit")
    ELSE IF l.ret = "state[href]"
    THEN SyncIterate([l EXCEPT !.state = Append(@, <<l.hhref, l.history_etag>>),
                               !.entries = Tail(@)])
    ELSE Goto(l, l.ret)

\* _update_history_etag, lines 520-543: the SELECT
SelectHistory(v, l) ==
    LET rows == HistoryRows(v, l.hcid, l.hhref)
        exists == rows # {}
        row == CHOOSE r \in rows : TRUE
    IN  Outcome(Cardinality(rows) <= 1, "MultipleResultsFound",
                IF exists THEN v ELSE Drawn(v), {},
                [l EXCEPT !.pc = "write_history", !.exists = exists,
                          !.cache_etag = IF exists THEN row.etag ELSE NoEtag,
                          !.history_etag = IF exists THEN row.history_etag
                                           ELSE Seed(uuid4(v))])

\* _update_history_etag, lines 544-573: the UPDATE or the INSERT
WriteHistory(v, l, t) ==
    LET rows == HistoryRows(v, l.hcid, l.hhref)
        new_he == ChainHash(l.history_etag, l.hetag)
        updated == {[r EXCEPT !.etag = l.hetag, !.history_etag = new_he,
                              !.modified_at = t] : r \in rows}
        newrow == [collection_id |-> l.hcid, name |-> l.hhref, etag |-> l.hetag,
                   history_etag |-> new_he, modified_at |-> t]
    IN  IF l.hetag = l.cache_etag THEN Outcome(TRUE, "", v, {}, Return(l))
        ELSE IF l.exists
        THEN Outcome(TRUE, "",
                     [v EXCEPT !.item_history = (@ \ rows) \cup updated],
                     HistoryKeys(rows), Return([l EXCEPT !.history_etag = new_he]))
        ELSE Outcome(\E c \in v.collection : c.id = l.hcid, "IntegrityError",
                     [v EXCEPT !.item_history = @ \cup {newrow}],
                     {}, Return([l EXCEPT !.history_etag = new_he]))

\* Storage._collection_updated: the UPDATE of the collection row
CollectionUpdated(v, l, cid, t, next) ==
    Outcome(TRUE, "", _collection_updated(v, cid, t),
            CollectionKeys({c \in v.collection : c.id = cid}), next)

\* _upload, lines 303-316 and 364: is there a row under the href
SelectItem(v, l) ==
    Outcome(TRUE, "", v, {},
            [l EXCEPT !.pc = "write_item", !.found = ItemRows(v, l.cid, l.href) # {}])

\* _upload, lines 365 and 368: the INSERT or the UPDATE of the item row
WriteItem(v, l, t) ==
    LET row == [id |-> l.id, collection_id |-> l.cid, name |-> l.href,
                data |-> l.text, modified_at |-> t]
        ins == InsertItem(v, row)
        matched == {r \in ItemRows(v, l.cid, l.href) : r.id = l.id}
    IN  IF ~l.found
        THEN Outcome(ins.ok, "IntegrityError", ins.db, ItemKeys({row}),
                     Goto(l, "collection_updated"))
        ELSE Outcome(TRUE, "", UpdateItem(v, l.cid, l.href, l.id, l.text, t),
                     ItemKeys(matched), Goto(l, "item_updated"))

\* _item_updated, lines 828-844: UPDATE ... RETURNING ... .one()
ItemUpdated(v, l, t) ==
    LET rows == ItemRows(v, l.cid, l.href)
    IN  Outcome(Cardinality(rows) = 1, "NoResultFound",
                [v EXCEPT !.item = {IF r \in rows THEN [r EXCEPT !.modified_at = t]
                                    ELSE r : r \in v.item}],
                ItemKeys(rows), Goto(l, "collection_updated"))

\* _upload, line 371: list(self._get_multi([href]))[0][1]
GetMulti(v, l) ==
    Outcome(ItemRows(v, l.cid, l.href) # {}, "IndexError", v, {}, Goto(l, "commit"))

\* _move, lines 976-984 and 999: DELETE of the row at the destination
DeleteDst(v, l) ==
    LET rows == ItemRows(v, l.dst, l.to_href)
    IN  Outcome(TRUE, "", [v EXCEPT !.item = @ \ rows], ItemKeys(rows),
                Goto(l, "update_src"))

\* _move, lines 985-998 and 1000: UPDATE of the row at the source
UpdateSrc(v, l, t) ==
    LET rows == ItemRows(v, l.cid, l.href)
        moved == {[r EXCEPT !.collection_id = l.dst, !.name = l.to_href,
                            !.modified_at = t] : r \in rows}
        conflict == /\ rows # {}
                    /\ \/ \E r \in v.item \ rows :
                              r.collection_id = l.dst /\ r.name = l.to_href
                       \/ ~ \E c \in v.collection : c.id = l.dst
    IN  Outcome(~conflict, "IntegrityError",
                [v EXCEPT !.item = (@ \ rows) \cup moved],
                ItemKeys(rows \cup moved), Goto(l, "collection_updated_src"))

\* _sync, lines 654-655: the SELECT of _get_all, its rows in the order `live`
GetAll(v, l, live) ==
    Outcome(TRUE, "", v, {},
            SyncIterate([l EXCEPT !.entries = [i \in 1..Len(live) |->
                                                  <<live[i].name, live[i].data>>],
                                  !.state = <<>>, !.dead_read = FALSE]))

\* _sync, lines 656-659: the SELECT of _get_deleted_history_refs
GetDeleted(v, l, dead) ==
    Outcome(TRUE, "", v, {},
            SyncIterate([l EXCEPT !.entries = [i \in 1..Len(dead) |-> <<dead[i], "">>],
                                  !.dead_read = TRUE]))

\* _sync, lines 700-713: is there a snapshot under the new token
SelectNewState(v, l) ==
    LET rows == StateRows(v, l.cid, l.token.name)
    IN  Outcome(Cardinality(rows) <= 1, "MultipleResultsFound", v, {},
                Goto(l, IF rows = {} THEN "insert_state" ELSE "commit"))

\* _sync, lines 714-721: the INSERT of the snapshot
InsertNewState(v, l) ==
    Outcome(\E c \in v.collection : c.id = l.cid, "IntegrityError",
            InsertState(v, l.cid, l.token.name, l.state), {}, Goto(l, "commit"))

\* _create_collection, lines 1043-1058: the SELECT of segment i under parent_id
WalkSelect(v, l) ==
    LET c == {c \in v.collection : c.parent_id = l.parent_id /\ c.name = l.path[l.i + 1]}
    IN  IF c = {} THEN Outcome(TRUE, "", v, {},
                               [l EXCEPT !.pc = "walk_insert", !.new_row = TRUE])
        ELSE Outcome(Cardinality(c) = 1, "MultipleResultsFound", v, {},
                     [l EXCEPT !.parent_id = (CHOOSE x \in c : TRUE).id, !.i = @ + 1,
                               !.pc = IF l.i + 1 >= Len(l.path) THEN "commit"
                                      ELSE "walk_select"])

\* no unique constraint on (parent_id, name)
SiblingConflictNone(v, row) == FALSE
\* the unique constraint of the collection table, db.py:56
SiblingConflict(v, row) ==
    \E x \in v.collection : x.parent_id = row.parent_id /\ x.name = row.name

\* _create_collection, lines 1059-1075: the INSERT of segment i
WalkInsert(v, l, t) ==
    LET id == IF l.i = 1 THEN UUID(l.path[2]) ELSE uuid4(v)
        v0 == IF l.i = 1 THEN v ELSE Drawn(v)
        row == [id |-> id, parent_id |-> l.parent_id, name |-> l.path[l.i + 1],
                tag |-> NullTag, modified_at |-> t]
        conflict == \/ \E x \in v.collection : x.id = id
                    \/ SiblingConflict(v, row)
    IN  Outcome(~conflict, "IntegrityError",
                [v0 EXCEPT !.collection = @ \cup {row}], CollectionKeys({row}),
                [l EXCEPT !.parent_id = id, !.i = @ + 1,
                          !.pc = IF l.i + 1 >= Len(l.path) THEN "commit"
                                 ELSE "walk_select"])

\* db.create, db.py:200-207: the row without a parent is looked up
SelectRoot(v, l) ==
    LET c == {c \in v.collection : c.parent_id = Null}
    IN  IF c = {} THEN Outcome(TRUE, "", v, {}, Goto(l, "insert_root"))
        ELSE Outcome(Cardinality(c) = 1, "MultipleResultsFound", v, {},
                     [l EXCEPT !.parent_id = (CHOOSE x \in c : TRUE).id,
                               !.found = TRUE, !.pc = "commit"])
\* db.create, db.py:208-216: INSERT with the values parent_id = NULL and
\* domain_id = 1.  No value is given for id, and the column (db.py:29-33) has
\* no default; it is the primary key, which takes no NULL
InsertRoot(v, l, t) ==
    LET row == [id |-> Null, parent_id |-> Null, name |-> NullName,
                tag |-> NullTag, modified_at |-> t]
    IN  Outcome(row.id # Null, "IntegrityError",
                [v EXCEPT !.collection = @ \cup {row}], CollectionKeys({row}),
                [l EXCEPT !.parent_id = row.id, !.found = TRUE, !.pc = "commit"])
\* Storage.__init__, lines 775-789: the collection "domain" under the root
SelectDomain(v, l) ==
    LET c == {c \in v.collection : c.parent_id = l.parent_id /\ c.name = Name("domain")}
    IN  Outcome(Cardinality(c) = 1,
                IF c = {} THEN "NoResultFound" ELSE "MultipleResultsFound", v, {},
                [l EXCEPT !.id = (CHOOSE x \in c : TRUE).id, !.pc = "commit"])

\* the statement request p is at
Statement(p, live, dead) ==
    LET v == View(p)
        l == tx[p]
        t == now + 1
    IN  CASE l.pc = "select_item" -> SelectItem(v, l)
          [] l.pc = "write_item" -> WriteItem(v, l, t)
          [] l.pc = "item_updated" -> ItemUpdated(v, l, t)
          [] l.pc = "collection_updated" ->
                 CollectionUpdated(v, l, l.cid, t,
                     CallHistory(l, l.cid, l.href, ItemEtag(l.text), "get_multi"))
          [] l.pc = "get_multi" -> GetMulti(v, l)
          [] l.pc = "delete_dst" -> DeleteDst(v, l)
          [] l.pc = "update_src" -> UpdateSrc(v, l, t)
          [] l.pc = "collection_updated_src" ->
                 CollectionUpdated(v, l, l.cid, t, Goto(l, "collection_updated_dst"))
          [] l.pc = "collection_updated_dst" ->
                 CollectionUpdated(v, l, l.dst, t,
                     CallHistory(l, l.dst, l.to_href, ItemEtag(l.text), "tombstone"))
          [] l.pc = "select_history" -> SelectHistory(v, l)
          [] l.pc = "write_history" -> WriteHistory(v, l, t)
          [] l.pc = "get_all" -> GetAll(v, l, live)
          [] l.pc = "get_deleted_history_refs" -> GetDeleted(v, l, dead)
          [] l.pc = "select_new_state" -> SelectNewState(v, l)
          [] l.pc = "insert_state" -> InsertNewState(v, l)
          [] l.pc = "walk_select" -> WalkSelect(v, l)
          [] l.pc = "walk_insert" -> WalkInsert(v, l, t)
          [] l.pc = "select_root" -> SelectRoot(v, l)
          [] l.pc = "insert_root" -> InsertRoot(v, l, t)
          [] l.pc = "select_domain" -> SelectDomain(v, l)

(***************************************************************************)
(* Two requests at the same time.                                          *)
(***************************************************************************)
Running(p) == tx[p].status = "running"
Blocked(p, keys) ==
    \E o \in Procs \ {p} : Running(o) /\ keys \cap tx[o].locks # {}
\* the exception leaves the `with` block: rollback
Failed(l, err) ==
    [l EXCEPT !.status = "failed", !.err = err, !.ins = NoTables, !.del = NoTables,
              !.locks = {}]
AllIdle == \A p \in Procs : tx[p].status = "idle"
\* requests are numbered in the order they arrive
Free(p) == tx[p].status = "idle" /\ \A o \in Procs : o < p => tx[o].status # "idle"

\* the item handles a caller can hold: of the items that are stored, and of
\* items a lookup returned before they were removed
Handles(texts) ==
    {[collection_id |-> r.collection_id, name |-> r.name, data |-> r.data] : r \in item}
    \cup {[collection_id |-> h.collection_id, name |-> h.name, data |-> text] :
            h \in {h \in item_history : ItemRows(DB, h.collection_id, h.name) = {}},
            text \in texts}

\* Collection.upload is entered: lines 220-236 run before the first statement
BeginUpload(p, cids, hrefs, texts) ==
    \E cid \in cids \cap CollectionIds, href \in hrefs, text \in texts :
        LET valid == is_valid_uuid(Stem(href))
            id == IF valid THEN UUID(Stem(href)) ELSE uuid4(DB)
            l == [TxIdle EXCEPT !.op = "upload", !.status = "running",
                                !.pc = "select_item", !.cid = cid, !.text = text,
                                !.id = id,
                                !.href = IF valid THEN href
                                         ELSE WithExt(str(id), href.ext)]
        IN  /\ Free(p)
            /\ tx' = [tx EXCEPT ![p] = IF href.ext \in {"vcf", "ics"} THEN l
                                       ELSE Failed(l, "ValueError")]
            /\ rnd' = IF valid \/ href.ext \notin {"vcf", "ics"} THEN rnd ELSE rnd + 1
            /\ UNCHANGED <<tables, now, last, prev, issued>>

\* what the tables hold when a move is entered: the id of the row the handle
\* stands for (Null when the row is gone), and the item at the destination
SourceId(src) ==
    LET rows == ItemRows(DB, src.collection_id, src.name)
    IN  IF rows = {} THEN Null ELSE (CHOOSE r \in rows : TRUE).id
Held(cid, href) == {<<r.id, r.data>> : r \in ItemRows(DB, cid, href)}

\* Storage.move is entered
BeginMove(p, hrefs, texts) ==
    \E src \in Handles(texts), dst \in CollectionIds, to_href \in hrefs :
        /\ Free(p)
        /\ tx' = [tx EXCEPT ![p] =
                    [TxIdle EXCEPT !.op = "move", !.status = "running",
                                   !.pc = "delete_dst", !.cid = src.collection_id,
                                   !.href = src.name, !.text = src.data,
                                   !.dst = dst, !.to_href = to_href,
                                   !.id = SourceId(src), !.held = Held(dst, to_href)]]
        /\ UNCHANGED <<tables, rnd, now, last, prev, issued>>

\* Collection.sync("") is entered
BeginSync(p, cids) ==
    \E cid \in cids \cap CollectionIds :
        /\ Free(p)
        /\ tx' = [tx EXCEPT ![p] =
                    [TxIdle EXCEPT !.op = "sync", !.status = "running",
                                   !.pc = "get_all", !.cid = cid]]
        /\ UNCHANGED <<tables, rnd, now, last, prev, issued>>

\* Storage.create_collection(href) is entered, items and props None: lines
\* 1022-1041 run before the first statement
BeginCreate(p, paths) ==
    \E href \in paths :
        LET rename == Len(href) = 2 /\ ~is_valid_uuid(href[2])
            l == [TxIdle EXCEPT !.op = "create_collection", !.status = "running",
                                !.pc = "walk_select", !.parent_id = RootId,
                                !.arg = href,
                                !.path = IF rename THEN <<href[1], str(uuid4(DB))>>
                                         ELSE href]
        IN  /\ Free(p)
            /\ tx' = [tx EXCEPT ![p] = IF Len(href) > 2 THEN Failed(l, "ValueError")
                                       ELSE l]
            /\ rnd' = IF rename THEN rnd + 1 ELSE rnd
            /\ UNCHANGED <<tables, now, last, prev, issued>>

\* Collection.__init__, lines 113-118: request p is handed a Collection object
NewHandle(p, cids) ==
    \E cid \in cids \cap CollectionIds :
        /\ tx[p].op = "idle"
        /\ tx' = [tx EXCEPT ![p] = [TxIdle EXCEPT !.op = "handle", !.cid = cid]]
        /\ UNCHANGED <<tables, rnd, now, last, prev, issued>>

\* the 5 * 60 * 1000 milliseconds of get_meta, in ticks of the clock
CacheTime == 2
\* a faulty variant: what was read once is kept for ever
ExpiredNever(l, t) == FALSE
\* get_meta, lines 438-440: self._updated_at < now - 5 minutes
Expired(l, t) == l.updated_at < t - CacheTime

\* Collection.get_meta through the Collection object of request p.  read_at
\* is the time self._meta was read from the database, kept for the properties
GetMeta(budget, p) ==
    LET l == tx[p]
        t == now + 1
        read == ~l.cached \/ l.updated_at = NoTime \/ Expired(l, t)
        metadata == _get_meta(DB, l.cid)
        l1 == IF read
              THEN [l EXCEPT !.cached = TRUE, !.meta = metadata, !.read_at = t,
                             !.updated_at = IF metadata # {} THEN t ELSE @]
              ELSE l
    IN  /\ l.op = "handle"
        /\ now < budget
        /\ now' = t
        /\ tx' = [tx EXCEPT ![p] = l1]
        /\ last' = [NoRec EXCEPT !.op = "get_meta", !.coll = l.cid,
                                 !.props = [given |-> TRUE, kv |-> l1.meta],
                                 !.age = t - l1.read_at]
        /\ prev' = Keep(last)
        /\ UNCHANGED <<tables, rnd, issued>>

\* Storage.__init__ is entered: db.create opens its transaction
BeginInit(p) ==
    /\ Free(p)
    /\ tx' = [tx EXCEPT ![p] = [TxIdle EXCEPT !.op = "init", !.status = "running",
                                              !.pc = "select_root"]]
    /\ UNCHANGED <<tables, rnd, now, last, prev, issued>>
\* db.create has returned: Storage.__init__ opens its own transaction, line 774
BeginSelectDomain(p) ==
    /\ tx[p].op = "init" /\ tx[p].status = "committed" /\ tx[p].i = 0
    /\ tx' = [tx EXCEPT ![p] = [@ EXCEPT !.status = "running", !.i = 1,
                                         !.pc = "select_domain",
                                         !.ins = NoTables, !.del = NoTables]]
    /\ UNCHANGED <<tables, rnd, now, last, prev, issued>>

\* the next statement of request p runs
Execute(p) ==
    /\ Running(p)
    /\ tx[p].pc # "commit"
    /\ \E live \in IF tx[p].pc = "get_all"
                   THEN SetToSeqs(_get_all(View(p), tx[p].cid)) ELSE {<<>>},
          dead \in IF tx[p].pc = "get_deleted_history_refs"
                   THEN SetToSeqs(_get_deleted_history_refs(View(p), tx[p].cid))
                   ELSE {<<>>} :
        LET s == Statement(p, live, dead)
        IN  /\ ~Blocked(p, s.keys)
            /\ rnd' = s.view.rnd
            /\ tx' = [tx EXCEPT ![p] =
                        IF s.ok
                        THEN [s.loc EXCEPT
                                !.ins = Inserted(s.view), !.del = Deleted(s.view),
                                !.locks = @ \cup s.keys,
                                !.overlap = @ \/ \E o \in Procs \ {p} : Running(o)]
                        ELSE Failed(tx[p], s.err)]
    /\ UNCHANGED <<tables, now, last, prev, issued>>

\* the `with` block of request p is left without an exception: commit
Commit(p) ==
    /\ Running(p)
    /\ tx[p].pc = "commit"
    /\ LET v == View(p)
       IN  /\ collection' = v.collection
           /\ collection_metadata' = v.collection_metadata
           /\ collection_state' = v.collection_state
           /\ item' = v.item
           /\ item_history' = v.item_history
    /\ tx' = [tx EXCEPT ![p] = [@ EXCEPT !.status = "committed", !.locks = {}]]
    /\ now' = now + 1
    /\ UNCHANGED <<rnd, last, prev, issued>>

\* each request waits for a lock of the other: the database aborts one
Deadlock ==
    /\ \A p \in Procs :
           Running(p) /\ tx[p].pc # "commit" /\ Blocked(p, Statement(p, <<>>, <<>>).keys)
    /\ \E p \in Procs : tx' = [tx EXCEPT ![p] = Failed(@, "DeadlockDetected")]
    /\ UNCHANGED <<tables, rnd, now, last, prev, issued>>

\* the database as meta.create_all leaves it (db.py:196), or with the root
\* and the collection "domain" in it
InitStores ==
    /\ collection \in
         {{}, {[id |-> RootId, parent_id |-> Null, name |-> NullName,
                tag |-> NullTag, modified_at |-> 0],
               [id |-> DomainId, parent_id |-> RootId, name |-> Name("domain"),
                tag |-> NullTag, modified_at |-> 0]}}
    /\ collection_metadata = {}
    /\ collection_state = {}
    /\ item = {}
    /\ item_history = {}
    /\ rnd = DomainId
    /\ now = 0
    /\ last = NoRec
    /\ prev = NoRec
    /\ issued = {}
    /\ tx = [p \in Procs |-> TxIdle]

\* every operation of the store, with every input
Next ==
    \/ Upload(MaxOps, CollectionIds, UploadHrefs, Texts)
    \/ Delete(MaxOps, CollectionIds, UuidHrefs)
    \/ DeleteCollection(MaxOps)
    \/ Move(MaxOps, UuidHrefs)
    \/ SetMeta(MaxOps)
    \/ Sync(MaxOps, CollectionIds,
            {EmptyToken, UnknownToken} \cup MalformedTokens \cup IssuedTokens \cup CutTokens)
    \/ CreateCollection(MaxOps)
    \/ Discover(MaxOps)

Spec == Init /\ [][Next]_vars

\* one collection, its items and its sync tokens
NextSync ==
    \/ Upload(MaxSyncOps, {DomainId}, UuidHrefs, Texts)
    \/ Delete(MaxSyncOps, {DomainId}, UuidHrefs)
    \/ Sync(MaxSyncOps, {DomainId}, {EmptyToken, UnknownToken} \cup IssuedTokens)

SpecSync == Init /\ [][NextSync]_vars

\* two collections, items moving between them
NextMove ==
    \/ Upload(MaxMoveOps, {RootId, DomainId}, UuidHrefs, {"p"})
    \/ Move(MaxMoveOps, UuidHrefs)
    \/ Sync(MaxMoveOps, {RootId, DomainId}, {EmptyToken} \cup IssuedTokens)

SpecMove == Init /\ [][NextMove]_vars

\* collections that are filled and then deleted
NextDelete ==
    \/ Upload(MaxDeleteOps, CollectionIds, {WithExt(U1, "vcf")}, {"p"})
    \/ SetMeta(MaxDeleteOps)
    \/ Sync(MaxDeleteOps, CollectionIds, {EmptyToken})
    \/ DeleteCollection(MaxDeleteOps)

SpecDelete == Init /\ [][NextDelete]_vars

\* items of two collections are written, then two requests run side by side
NextRace ==
    \/ AllIdle /\ Upload(MaxRaceOps, {RootId, DomainId}, {WithExt(U1, "vcf")}, {"p"})
    \/ AllIdle /\ Delete(MaxRaceOps, {RootId, DomainId}, {WithExt(U1, "vcf")})
    \/ \E p \in Procs : BeginUpload(p, {RootId, DomainId}, {WithExt(U1, "vcf")}, {"p"})
    \/ \E p \in Procs : BeginMove(p, {WithExt(U1, "vcf"), WithExt(U2, "vcf")}, {"p"})
    \/ \E p \in Procs : BeginSync(p, {RootId, DomainId})
    \/ \E p \in Procs : Execute(p)
    \/ \E p \in Procs : Commit(p)
    \/ Deadlock

SpecRace == Init /\ [][NextRace]_vars

\* uploads under hrefs of every kind: both formats, with and without a UUID
\* stem, and an extension that is not supported
FormatHrefs == {WithExt(U1, "vcf"), WithExt(Name("card"), "vcf"),
                WithExt(U2, "ics"), WithExt(Name("event"), "ics"),
                WithExt(U1, "txt"), WithExt(Name("note"), "txt")}
NextUpload ==
    \/ Upload(MaxUploadOps, {DomainId}, FormatHrefs, {"p"})
    \/ Delete(MaxUploadOps, {DomainId}, {WithExt(U1, "vcf"), WithExt(U2, "ics")})

SpecUpload == Init /\ [][NextUpload]_vars

\* a collection with an item, metadata and a child collection is created
\* again, with and without items and props
ReplacePaths == {<<Name("domain")>>, <<Name("domain"), U1>>}
NextReplace ==
    \/ Upload(MaxReplaceOps, {DomainId}, {WithExt(U1, "vcf")}, {"p"})
    \/ SetMeta(MaxReplaceOps)
    \/ CreateCollectionAt(MaxReplaceOps, ReplacePaths)

SpecReplace == Init /\ [][NextReplace]_vars

\* lookups of what is stored and of what is not
LookupHrefs == {WithExt(U1, "vcf"), WithExt(U2, "vcf")}
LookupPaths == {<<Name("nobody")>>, <<Name("domain"), WithExt(U1, "vcf")>>,
                <<Name("domain"), WithExt(U1, "vcf"), WithExt(U2, "vcf")>>,
                <<Name("alice"), U1, WithExt(U2, "vcf")>>}
HrefLists == {<<>>, <<WithExt(U1, "vcf")>>,
              <<WithExt(U1, "vcf"), WithExt(U2, "vcf"), WithExt(U1, "vcf")>>}
NextLookup ==
    \/ CreateCollectionAt(MaxLookupOps, {<<Name("alice"), U1>>})
    \/ Upload(MaxLookupOps, CollectionIds, LookupHrefs, {"p"})
    \/ Delete(MaxLookupOps, CollectionIds, {WithExt(U1, "vcf")})
    \/ get_multi(MaxLookupOps, CollectionIds, HrefLists)
    \/ DiscoverAt(MaxLookupOps, LookupPaths)

SpecLookup == Init /\ [][NextLookup]_vars

\* one collection under every kind of write, and the syncs that report them
NextChanges ==
    \/ Upload(MaxChangeOps, {DomainId}, UuidHrefs, Texts)
    \/ Delete(MaxChangeOps, {DomainId}, UuidHrefs)
    \/ Move(MaxChangeOps, {WithExt(U2, "vcf")})
    \/ CreateCollectionAt(MaxChangeOps, {<<Name("domain")>>})
    \/ Sync(MaxChangeOps, {DomainId}, {EmptyToken} \cup IssuedTokens)

SpecChanges == Init /\ [][NextChanges]_vars

\* two items are stored, then two requests move items side by side
NextMoveRace ==
    \/ AllIdle /\ Upload(MaxMoveRaceOps, {RootId, DomainId}, UuidHrefs, {"p"})
    \/ \E p \in Procs : BeginMove(p, UuidHrefs, {"p"})
    \/ \E p \in Procs : Execute(p)
    \/ \E p \in Procs : Commit(p)
    \/ Deadlock

SpecMoveRace == Init /\ [][NextMoveRace]_vars

\* two requests hold Collection objects and read the metadata through them
\* while metadata is written
NextMeta ==
    \/ \E p \in Procs : NewHandle(p, {DomainId})
    \/ \E p \in Procs : GetMeta(MaxMetaOps, p)
    \/ SetMeta(MaxMetaOps)

SpecMeta == Init /\ [][NextMeta]_vars

\* items are stored and removed, and history is purged, in two collections;
\* max_sync_token_age is one or two ticks of the clock
TokenAges == {1, 2}
NextPurge ==
    \/ Upload(MaxPurgeOps, CollectionIds, UuidHrefs, {"p"})
    \/ Delete(MaxPurgeOps, CollectionIds, UuidHrefs)
    \/ DeleteHistoryRefs(MaxPurgeOps, CollectionIds, TokenAges)

SpecPurge == Init /\ [][NextPurge]_vars

\* a running store creates collections, then two stores are initialised on
\* the same database side by side
InitPaths == {<<Name("alice")>>, <<Name("domain"), Name("cal")>>}
NextInit ==
    \/ AllIdle /\ collection # {} /\ CreateCollectionAt(MaxInitOps, InitPaths)
    \/ \E p \in Procs : BeginInit(p)
    \/ \E p \in Procs : Execute(p)
    \/ \E p \in Procs : Commit(p)
    \/ \E p \in Procs : BeginSelectDomain(p)

SpecInit == InitStores /\ [][NextInit]_vars

\* two requests create collections side by side
RacePaths == {<<Name("alice")>>, <<Name("alice"), U1>>, <<Name("domain"), Name("cal")>>}
NextCreateRace ==
    \/ \E p \in Procs : BeginCreate(p, RacePaths)
    \/ \E p \in Procs : Execute(p)
    \/ \E p \in Procs : Commit(p)

SpecCreateRace == Init /\ [][NextCreateRace]_vars

(***************************************************************************)
(* Properties of the store.                                                *)
(***************************************************************************)
SyncDone == last.op = "sync" /\ last.ok
\* the token the last sync was asked with was returned by a sync of the same
\* collection, and exactly the write w reached the collection since
OneWriteSince(s, w) == s.n = 1 /\ s.writes = {w}
ContentUploads(href) == {Write("upload", href, "create"), Write("upload", href, "change")}

\* C1: when a sync returned token A and then exactly one upload that creates
\* an href or changes its payload is written to the collection, sync(A)
\* returns a token B different from A and a change set that is exactly that
\* href; the sync(B) that follows returns no changes.
C1_OneUploadBetweenSyncs ==
    SyncDone =>
        /\ \A href \in UuidHrefs : \A w \in ContentUploads(href) :
               OneWriteSince(last.since, w) =>
                   /\ last.token # last.arg
                   /\ Len(last.changes) = 1
                   /\ Range(last.changes) = {href}
        /\ \A href \in UuidHrefs : \A w \in ContentUploads(href) :
               (last.since.n = 0 /\ OneWriteSince(last.since.born, w)) =>
                   last.changes = <<>>

C1_Witness ==
    /\ SyncDone
    /\ last.since.n = 0
    /\ \E href \in UuidHrefs :
           OneWriteSince(last.since.born, Write("upload", href, "change"))
    /\ last.changes = <<>>

\* C2: a sync asked with the token the previous sync of the collection
\* returned, with no write to the collection in between, returns that same
\* token and an empty change set.
C2_SyncTwiceSameToken ==
    (SyncDone /\ last.since.n = 0) =>
        /\ last.token = last.arg
        /\ last.changes = <<>>

\* C3: sync("") on a collection reports every item stored in it; when the
\* only write after a returned token T1 is delete(h), sync(T1) returns a
\* token T2 different from T1 and a change set that is exactly h; the
\* sync(T2) that follows returns no changes.
C3_DeleteBetweenSyncs ==
    SyncDone =>
        /\ last.arg = EmptyToken =>
               \A r \in item : r.collection_id = last.coll =>
                   r.name \in Range(last.changes)
        /\ \A href \in UuidHrefs :
               OneWriteSince(last.since, Write("delete", href, "")) =>
                   /\ last.token # last.arg
                   /\ Len(last.changes) = 1
                   /\ Range(last.changes) = {href}
        /\ \A href \in UuidHrefs :
               (last.since.n = 0
                /\ OneWriteSince(last.since.born, Write("delete", href, ""))) =>
                   last.changes = <<>>

C3_Witness ==
    /\ SyncDone
    /\ last.since.n = 0
    /\ \E href \in UuidHrefs :
           /\ OneWriteSince(last.since.born, Write("delete", href, ""))
           /\ ItemRows(DB, last.coll, href) = {}
           /\ HistoryRows(DB, last.coll, href) # {}
    /\ last.changes = <<>>

\* C4: when an href is deleted and the next write uploads to the same href,
\* whatever the payload, the history etag of the href after the upload
\* differs from the one it had before the deletion.
C4_ReuploadAdvancesHistory ==
    (/\ last.op = "upload" /\ last.ok
     /\ prev.op = "delete" /\ prev.ok
     /\ prev.coll = last.coll /\ prev.href = last.stored) =>
        HistoryEtagOf(DB, last.coll, last.stored) # prev.heBefore

\* the step uploads, to the href of the upload before it, the same payload
SameUploadAgain ==
    /\ last.op = "upload" /\ last.ok
    /\ last'.op = "upload" /\ last'.ok
    /\ last'.coll = last.coll /\ last'.href = last.href /\ last'.text = last.text

\* C5: uploading the same payload a second time to the same href leaves the
\* history etag of that href as the first upload left it, and exactly one
\* item is stored for that href.
C5_SamePayloadTwice ==
    [][SameUploadAgain =>
          /\ HistoryEtagOf(DB, last.coll, last.href)'
                 = HistoryEtagOf(DB, last.coll, last.href)
          /\ Cardinality(ItemRows(DB, last.coll, last.href))' = 1]_vars

\* C5 (amended): the same for an href whose stem is a valid UUID; any other
\* stem is replaced by a freshly drawn UUID on every upload.
C5_SamePayloadTwiceUuidHref ==
    [][(SameUploadAgain /\ is_valid_uuid(Stem(last.href))) =>
          /\ last'.stored = last.href
          /\ HistoryEtagOf(DB, last.coll, last.href)'
                 = HistoryEtagOf(DB, last.coll, last.href)
          /\ Cardinality(ItemRows(DB, last.coll, last.href))' = 1]_vars

C5_Witness ==
    /\ last.op = "upload" /\ last.ok
    /\ prev.op = "upload" /\ prev.ok
    /\ prev.coll = last.coll /\ prev.href = last.href /\ prev.text = last.text
    /\ is_valid_uuid(Stem(last.href))
    /\ last.eff = "same"
    /\ HistoryEtagOf(DB, last.coll, last.href) = last.heBefore

MovedAcross == last.op = "move" /\ last.ok /\ last.coll # last.dcoll
MoveLanded ==
    MovedAcross =>
        /\ Cardinality(ItemRows(DB, last.dcoll, last.dhref)) = 1
        /\ DataOf(DB, last.dcoll, last.dhref) = last.text
        /\ ItemRows(DB, last.coll, last.href) = {}
\* a sync asked with a token returned before the writes of last.since.writes
SyncSince == SyncDone /\ last.since.n >= 0

\* C6: after a move of h1 in X to h2 in another collection Y, a sync of X
\* with a token from before the move reports h1, a sync of Y with a token
\* from before the move reports h2, the item is stored under h2 in Y and no
\* item is stored under h1 in X.
C6_MoveAcrossCollections ==
    /\ MoveLanded
    /\ SyncSince =>
           \A w \in last.since.writes :
               w.op \in {"move_out", "move_in"} => w.href \in Range(last.changes)

\* C6 (amended): the sync of Y reports h2 when Y's history row of h2 did not
\* already record the etag of the moved payload at the move; the rest as C6.
C6_MoveAcrossCollectionsNewEtag ==
    /\ MoveLanded
    /\ SyncSince =>
           \A w \in last.since.writes :
               (w.op = "move_out" \/ (w.op = "move_in" /\ w.eff = "new"))
                   => w.href \in Range(last.changes)

C6_Witness ==
    /\ SyncSince
    /\ \E w \in last.since.writes :
           /\ w.op = "move_in" /\ w.eff = "new"
           /\ w.href \in Range(last.changes)
           /\ ItemRows(DB, last.coll, w.href) # {}

\* the mapping stored for the token the last sync was asked with
OldStateOf(cid, token) ==
    LET rows == IF token = EmptyToken THEN {} ELSE StateRows(DB, cid, token.name)
    IN  IF rows = {} THEN <<>> ELSE (CHOOSE s \in rows : TRUE).state.json
HistoryNames(cid) == {h.name : h \in {h \in item_history : h.collection_id = cid}}

\* C7: the change set of a sync is exactly the names whose history etag in
\* the state the sync computed differs from the one in the state stored for
\* old_token, where a name missing on one side differs and an empty or
\* unknown old_token stands for the empty mapping.
C7_ChangeSetIsTheDifference ==
    SyncDone =>
        LET old == OldStateOf(last.coll, last.arg)
        IN  /\ Range(last.changes) =
                   {n \in HistoryNames(last.coll) \cup DictKeys(old) :
                        HistoryEtagOf(DB, last.coll, n) # DictGet(old, n)}
            /\ Len(last.changes) = Cardinality(Range(last.changes))

C7_Witness ==
    /\ SyncDone
    /\ OldStateOf(last.coll, last.arg) # <<>>
    /\ last.changes # <<>>
    /\ HistoryNames(last.coll) \ Range(last.changes) # {}

\* C8: a sync asked with a non-empty token that lacks the prefix, or whose
\* suffix is not 64 lowercase hexadecimal characters, fails and leaves every
\* table as it was.
C8_MalformedTokenFails ==
    [][(last'.op = "sync" /\ last'.arg \in MalformedTokens \cup CutTokens) =>
          (~last'.ok /\ UNCHANGED tables)]_vars

C8_Witness ==
    /\ last.op = "sync" /\ ~last.ok
    /\ last.arg \in MalformedTokens
    /\ item # {} /\ item_history # {}
    /\ collection_state = {}

\* C9: an operation that fails leaves every table as it was before the
\* operation began, also when a bulk create_collection fails at an upload
\* after it deleted the children, metadata and items of the target.
C9_FailureChangesNothing ==
    [][~last'.ok => UNCHANGED tables]_vars

C9_Witness ==
    /\ last.op = "create_collection" /\ ~last.ok
    /\ last.eff = "replace" /\ last.err = "upload"
    /\ \E c \in collection :
           /\ c.parent_id = last.coll
           /\ \E r \in item : r.collection_id = c.id
           /\ \E m \in collection_metadata : m.collection_id = c.id

Created == prev.op = "create_collection" /\ prev.ok
Resolved ==
    /\ last.ok
    /\ Len(last.found) = 1
    /\ last.found[1].type_ = "collection"
    /\ last.found[1].id = prev.coll
\* an item that carries the name of the created collection under its parent
ItemOfThatName ==
    \E c \in collection, r \in item :
        /\ c.id = prev.coll
        /\ r.collection_id = c.parent_id
        /\ r.name = c.name

C11_TombstoneIffNoItem ==
    \A h \in item_history :
        (h.etag = NoEtag) <=> (ItemRows(DB, h.collection_id, h.name) = {})

RefersTo(cid) ==
    \/ \E r \in item : r.collection_id = cid
    \/ \E m \in collection_metadata : m.collection_id = cid
    \/ \E h \in item_history : h.collection_id = cid
    \/ \E x \in collection_state : x.collection_id = cid
    \/ \E c \in collection : c.parent_id = cid

\* C12: the collection of every item row is a stored collection, and after
\* a successful delete of a whole collection no item, metadata, history or
\* snapshot row and no child collection refers to it.
C12_NoDanglingRows ==
    /\ \A r \in item : r.collection_id \in CollectionIds
    /\ (last.op = "delete_collection" /\ last.ok) =>
           (last.coll \notin CollectionIds /\ ~RefersTo(last.coll))

C12_Witness ==
    /\ last.op = "delete_collection" /\ last.ok
    /\ last.eff = "full"
    /\ ~RefersTo(last.coll)


\* C13: whatever the interleaving of the statements of concurrent upload,
\* move and sync transactions, item_history never holds two rows for one
\* (collection_id, name) pair.
C13_OneHistoryRowPerName ==
    \A h1, h2 \in item_history :
        (h1.collection_id = h2.collection_id /\ h1.name = h2.name) => h1 = h2
\* an upload that found no history row for its href, and a move onto the same
\* href from a handle whose item is gone, ran side by side and both committed
C13_Witness ==
    \E p, q \in Procs :
        /\ tx[p].op = "upload" /\ tx[q].op = "move"
        /\ tx[p].status = "committed" /\ tx[q].status = "committed"
        /\ tx[p].overlap /\ tx[q].overlap
        /\ tx[p].cid = tx[q].dst /\ tx[p].href = tx[q].to_href
        /\ ~tx[p].exists
        /\ Cardinality(HistoryRows(DB, tx[p].cid, tx[p].href)) = 1


\* C16: for each collection and each token name collection_state holds at
\* most one row, also when sync calls run side by side.
C16_OneStateRowPerToken ==
    \A s1, s2 \in collection_state :
        (s1.collection_id = s2.collection_id /\ s1.name = s2.name) => s1 = s2


\* two create_collection calls for one path overlapped and both are over
Done(p) == tx[p].status \in {"committed", "failed"}
RacedCreates(p, q) ==
    /\ p # q
    /\ tx[p].op = "create_collection" /\ tx[q].op = "create_collection"
    /\ tx[p].arg = tx[q].arg
    /\ tx[p].overlap /\ tx[q].overlap
    /\ Done(p) /\ Done(q)
\* the rows the path of request p ends at
RowsOfPath(p) ==
    {c \in collection : c.name = tx[p].arg[Len(tx[p].arg)]}
OneRowPerSibling ==
    \A c1, c2 \in collection :
        (c1.parent_id = c2.parent_id /\ c1.name = c2.name) => c1 = c2

\* C14 as stated: of two concurrent create_collection calls for one new path
\* one commits and the other fails on the uniqueness conflict, leaving at most
\* one row.
C14_OneCommitsOtherFails ==
    \A p, q \in Procs :
        RacedCreates(p, q) =>
            /\ OneRowPerSibling
            /\ \/ tx[p].status = "committed" /\ tx[q].status = "failed"
                     /\ tx[q].err = "IntegrityError"
               \/ tx[q].status = "committed" /\ tx[p].status = "failed"
                     /\ tx[p].err = "IntegrityError"

\* C14: no two collection rows ever share (parent_id, name); of two
\* concurrent create_collection calls that both looked a segment of the same
\* stored path up and missed it, one commits and the other fails with
\* IntegrityError and stays failed; a call whose lookups all ran after the
\* other's commit commits too, on the row it found.
C14_ConcurrentCreate ==
    /\ OneRowPerSibling
    /\ \A p, q \in Procs :
           RacedCreates(p, q) =>
               /\ (tx[p].new_row /\ tx[q].new_row /\ tx[p].path = tx[q].path) =>
                      \/ tx[p].status = "committed" /\ tx[q].status = "failed"
                             /\ tx[q].err = "IntegrityError"
                      \/ tx[q].status = "committed" /\ tx[p].status = "failed"
                             /\ tx[p].err = "IntegrityError"
               /\ ~tx[p].new_row => tx[p].status = "committed"
C14_Witness ==
    \E p, q \in Procs :
        /\ RacedCreates(p, q)
        /\ tx[p].new_row /\ tx[q].new_row /\ tx[p].path = tx[q].path
        /\ tx[p].status = "committed"
        /\ tx[q].status = "failed" /\ tx[q].err = "IntegrityError"
        /\ Cardinality(RowsOfPath(p)) = 1


\* C15: a sync whose computed token is the token it was handed returns that
\* token with no changes, and the collection_state table is the same before
\* and after the call.
C15_SameTokenWritesNothing ==
    [][(last'.op = "sync" /\ last'.ok /\ last'.arg # EmptyToken
            /\ last'.token = last'.arg)
          => (last'.changes = <<>> /\ collection_state' = collection_state)]_vars
\* the token was issued for another collection with the same content: this
\* collection has no snapshot row under it, and none was written
C15_Witness ==
    /\ last.op = "sync" /\ last.ok /\ last.arg # EmptyToken
    /\ last.token = last.arg /\ last.changes = <<>>
    /\ StateRows(DB, last.coll, last.token.name) = {}
    /\ collection_state # {}


\* C17: the token is a function of the name -> history_etag mapping alone:
\* two snapshots that hold the same mapping are stored under the same token
\* name, in whatever order the names were enumerated.
C17_TokenDeterminedByMapping ==
    \A s1, s2 \in collection_state :
        Range(JsonLoads(s1.state)) = Range(JsonLoads(s2.state)) => s1.name = s2.name


\* C18: create_collection with a path of more than two segments fails and
\* leaves the collection table as it was: no row for the path, none for its
\* leading segments.
C18_DeepPathRejected ==
    [][(last'.op = "create_collection" /\ Len(last'.path) > 2)
          => (~last'.ok /\ collection' = collection)]_vars
\* the call failed on a path whose leading segments are not stored either
C18_Witness ==
    /\ last.op = "create_collection" /\ Len(last.path) > 2 /\ ~last.ok
    /\ last.err = "path"
    /\ ~ \E c \in collection : c.parent_id = RootId /\ c.name = last.path[1]


UploadOf(ext) == last'.op = "upload" /\ last'.href.ext = ext
StoredRows == ItemRows(DB, last.coll, last.stored)
\* the upload stored the item under a name minted for it
Minted ==
    /\ last'.stored # last'.href
    /\ last'.stored.ext = last'.href.ext
    /\ is_valid_uuid(Stem(last'.stored))
    /\ ~ \E r \in item : r.id = UUID(Stem(last'.stored))
    /\ \E r \in item' : /\ r.collection_id = last'.coll /\ r.name = last'.stored
                        /\ r.id = UUID(Stem(last'.stored))
    /\ ~ \E r \in item' : r.collection_id = last'.coll /\ r.name = last'.href
\* the upload stored the item under the href of the caller
KeptHref ==
    /\ last'.stored = last'.href
    /\ \E r \in item' : r.collection_id = last'.coll /\ r.name = last'.href
\* the upload was refused and no table changed
Rejected ==
    ~last'.ok /\ UNCHANGED tables

\* C19 as stated: a .vcf href with a stem that is no UUID is stored under a
\* minted name, a .ics href is stored as the caller gave it whatever its
\* stem, any other extension is rejected and nothing is stored.
C19_IcsStoredUnchanged ==
    [][/\ (UploadOf("vcf") /\ last'.ok /\ ~is_valid_uuid(Stem(last'.href))) => Minted
       /\ (UploadOf("ics") /\ last'.ok) => KeptHref
       /\ (last'.op = "upload" /\ last'.href.ext \notin {"vcf", "ics"}) => Rejected]_vars

\* C19: in both formats, .vcf and .ics, an href with a stem that is no UUID
\* is stored under a minted name and an href with a UUID stem is stored as
\* the caller gave it; any other extension is rejected and nothing is stored.
C19_BothFormatsRewritten ==
    [][/\ (last'.op = "upload" /\ last'.ok /\ ~is_valid_uuid(Stem(last'.href)))
             => Minted
       /\ (last'.op = "upload" /\ last'.ok /\ is_valid_uuid(Stem(last'.href)))
             => KeptHref
       /\ (last'.op = "upload" /\ last'.href.ext \notin {"vcf", "ics"}) => Rejected]_vars
\* a .ics upload under a stem that is no UUID went through, and the item is
\* stored under another name
C19_Witness ==
    /\ last.op = "upload" /\ last.ok /\ last.href.ext = "ics"
    /\ ~is_valid_uuid(Stem(last.href))
    /\ last.stored # last.href
    /\ StoredRows # {}
    /\ ItemRows(DB, last.coll, last.href) = {}


\* a create_collection with items or props went through on a collection that
\* was stored before the call
Replaced ==
    /\ last'.op = "create_collection" /\ last'.ok
    /\ last'.items.given \/ last'.props.given
    /\ last'.coll \in CollectionIds
SuppliedItems ==
    IF last'.items.given
    THEN {<<UUID(last'.items.seq[i].uid), last'.items.seq[i].text>> :
            i \in 1..Len(last'.items.seq)}
    ELSE {}
SuppliedMeta ==
    IF last'.props.given THEN MetaRows(last'.coll, last'.props.kv) ELSE {}

\* C20: after a create_collection with items or props on a stored collection
\* the collection has no child collection, its metadata rows are the props
\* that were supplied and its items are the items that were supplied, for
\* every combination of supplied and omitted items and props.
C20_HoldsExactlyTheSupplied ==
    [][Replaced =>
          /\ ~ \E c \in collection' : c.parent_id = last'.coll
          /\ {m \in collection_metadata' : m.collection_id = last'.coll} = SuppliedMeta
          /\ {<<r.id, r.data>> : r \in {r \in item' : r.collection_id = last'.coll}}
                 = SuppliedItems]_vars


\* the metadata rows of a collection, and those of all the others
MetaOf(rows, cid) == {m \in rows : m.collection_id = cid}
MetaOfOthers(rows, cid) == {m \in rows : m.collection_id # cid}

\* C21: after set_meta(props) on a collection its metadata rows are props
\* and nothing else, whatever an earlier set_meta wrote, and the metadata
\* rows of the other collections are the same as before.
C21_MetaIsExactlyProps ==
    [][last'.op = "set_meta" =>
          /\ MetaOf(collection_metadata', last'.coll)
                 = MetaRows(last'.coll, last'.props.kv)
          /\ MetaOfOthers(collection_metadata', last'.coll)
                 = MetaOfOthers(collection_metadata, last'.coll)]_vars


\* the collections a path names, walking down from the root
RECURSIVE CollectionsAt(_)
CollectionsAt(path) ==
    IF path = <<>> THEN {c \in collection : c.parent_id = Null}
    ELSE {c \in collection :
            /\ c.name = path[Len(path)]
            /\ \E d \in CollectionsAt(SubSeq(path, 1, Len(path) - 1)) : c.parent_id = d.id}
\* the items a path names: an item of a collection the path before it names
ItemsAt(path) ==
    {r \in item :
        /\ r.name = path[Len(path)]
        /\ \E d \in CollectionsAt(SubSeq(path, 1, Len(path) - 1)) : r.collection_id = d.id}
Absent(path) == path # <<>> /\ CollectionsAt(path) = {} /\ ItemsAt(path) = {}
\* the places of an href in the result of get_multi
PlacesOf(href) == {i \in 1..Len(last.got) : last.got[i][1] = href}

\* C22: discover of a path that names no collection and no item returns the
\* empty list and does not fail; get_multi does not fail, holds every
\* requested href exactly once, and pairs an href that has no item with None.
C22_AbsentIsNotAnError ==
    /\ (last.op = "discover" /\ Absent(last.path)) => (last.ok /\ last.found = <<>>)
    /\ last.op = "get_multi" =>
           /\ last.ok
           /\ \A href \in Range(last.hrefs) :
                  /\ Cardinality(PlacesOf(href)) = 1
                  /\ ItemRows(DB, last.coll, href) = {} =>
                         \A i \in PlacesOf(href) : last.got[i][2] = None


\* the hrefs whose existence or payload is not what it was when the token of
\* the last sync was returned
Changed ==
    {c[1] : c \in (ContentOf(last.coll) \ last.since.content)
                    \cup (last.since.content \ ContentOf(last.coll))}
\* the hrefs an operation was aimed at since then; a create_collection with
\* items or props is aimed at all of them
Touched ==
    IF \E w \in last.since.writes : w.op = "replace"
    THEN {h.name : h \in {h \in item_history : h.collection_id = last.coll}}
    ELSE {w.href : w \in last.since.writes}

\* C23: a sync asked with a token that a sync of the same collection
\* returned reports every href whose existence or payload differs from what
\* it was when the token was returned, and no href that no upload, delete,
\* move or bulk import was aimed at since.
C23_ChangesSinceToken ==
    (SyncDone /\ last.since.n >= 0) =>
        /\ Changed \subseteq Range(last.changes)
        /\ Range(last.changes) \subseteq Touched
\* a sync reported one href that was deleted since the token and left out
\* another that was not touched
C23_Witness ==
    /\ SyncDone /\ last.since.n >= 0
    /\ \E h1, h2 \in UuidHrefs :
           /\ h1 # h2
           /\ <<h1, "p">> \in last.since.content
           /\ ItemRows(DB, last.coll, h1) = {}
           /\ \E d \in Texts : <<h2, d>> \in last.since.content
                                 /\ <<h2, d>> \in ContentOf(last.coll)
           /\ Range(last.changes) = {h1}


\* C24: after a successful upload the item stored under the href the upload
\* stored it at carries the payload that was uploaded, whatever the
\* collection held before.
C24_UploadThenRead ==
    (last.op = "upload" /\ last.ok) =>
        /\ ItemRows(DB, last.coll, last.stored) # {}
        /\ DataOf(DB, last.coll, last.stored) = last.text


\* C25: every stored item has an item_history row for its collection and
\* href whose etag is the etag of the payload the item carries.
C25_LiveItemHasHistory ==
    \A r \in item :
        \E h \in HistoryRows(DB, r.collection_id, r.name) : h.etag = ItemEtag(r.data)


\* C26: after a move that returned without error an item with the moved
\* payload is stored at the destination collection and href, also when they
\* are the collection and href the item had.
C26_MoveKeepsTheItem ==
    (last.op = "move" /\ last.ok) =>
        \E r \in ItemRows(DB, last.dcoll, last.dhref) : r.data = last.text


\* two moves were started on one stored item, with two destinations other
\* than the place of the item, and both are over
RacedMoves(p, q) ==
    /\ p # q
    /\ tx[p].op = "move" /\ tx[q].op = "move"
    /\ tx[p].id # Null /\ tx[p].id = tx[q].id
    /\ tx[p].cid = tx[q].cid /\ tx[p].href = tx[q].href
    /\ <<tx[p].dst, tx[p].to_href>> # <<tx[q].dst, tx[q].to_href>>
    /\ <<tx[p].dst, tx[p].to_href>> # <<tx[p].cid, tx[p].href>>
    /\ <<tx[q].dst, tx[q].to_href>> # <<tx[q].cid, tx[q].href>>
    /\ Done(p) /\ Done(q)
\* the moved item is stored at the destination of request p
Landed(p) ==
    \E r \in ItemRows(DB, tx[p].dst, tx[p].to_href) : r.id = tx[p].id

\* C27: when two moves are started on the same item with different
\* destinations, then in every interleaving exactly one destination holds
\* the item afterwards and the other destination holds what it held before.
C27_OneMoveWins ==
    \A p, q \in Procs :
        RacedMoves(p, q) =>
            /\ Landed(p) # Landed(q)
            /\ ~Landed(p) => Held(tx[p].dst, tx[p].to_href) = tx[p].held


\* the initialisation of store p is over: it raised, or both transactions
\* of Storage.__init__ are committed
Initialised(p) == tx[p].op = "init" /\ tx[p].status = "committed" /\ tx[p].i = 1
InitOver(p) == tx[p].op = "init" /\ (tx[p].status = "failed" \/ Initialised(p))
Roots == {c \in collection : c.parent_id = Null}

\* C28: when the initialisations of stores on one database are over, in
\* whatever order their statements ran, the collection table holds exactly
\* one row with a null parent_id, and every initialised store has the id of
\* that row as its root.
C28_OneRoot ==
    ((\E p \in Procs : InitOver(p)) /\ \A p \in Procs : tx[p].op = "init" => InitOver(p))
        => /\ Cardinality(Roots) = 1
           /\ \A p \in Procs : Initialised(p) => \E c \in Roots : c.id = tx[p].parent_id


\* C29: an upload of an identifier-shaped href into one collection, made while
\* another collection holds an item of the same name, returns without error,
\* and afterwards both collections hold an item of that name.
C29_SameNameInTwoCollections ==
    [][\A r \in item :
          (/\ last'.op = "upload"
           /\ last'.href = r.name /\ is_valid_uuid(Stem(r.name))
           /\ last'.coll # r.collection_id)
              => /\ last'.ok
                 /\ ItemRows(DB', r.collection_id, r.name) # {}
                 /\ ItemRows(DB', last'.coll, r.name) # {}]_vars


\* the item_history rows of a collection that have no item and were modified
\* more than `age` before t
OldTombstones(cid, t, age) ==
    {h \in item_history : /\ h.collection_id = cid
                          /\ ItemRows(DB, cid, h.name) = {}
                          /\ h.modified_at < t - age}

\* C30: a purge of a collection removes from item_history exactly the rows of
\* that collection that have no item and are older than the retention
\* window: no row of a stored item, no younger row and no row of another
\* collection is removed.
C30_PurgeDeletesOldTombstones ==
    [][last'.op = "delete_history_refs" =>
          /\ item_history' \subseteq item_history
          /\ item_history \ item_history' = OldTombstones(last'.coll, now', last'.age)]_vars


\* C31: what get_meta returns through a Collection object was read from the
\* database no more than the cache time before the call, and it is what the
\* database holds now when the collection was not written since it was read.
C31_MetaNoOlderThanCacheTime ==
    last.op = "get_meta" =>
        /\ last.age <= CacheTime
        /\ (\A c \in collection : c.id = last.coll => c.modified_at < now - last.age)
               => last.props.kv = _get_meta(DB, last.coll)
\* get_meta returned what it had read before, and a later set_meta through
\* another Collection object did not refresh it
C31_Witness ==
    /\ last.op = "get_meta" /\ last.age > 0
    /\ last.props.kv # {}
    /\ last.props.kv # _get_meta(DB, last.coll)


\* the collection row was written at or after the start of the last operation
Touched_at(cid) == \A c \in collection : c.id = cid => c.modified_at >= now
\* the last operation committed a change of what the collection holds
Mutated ==
    /\ last.ok
    /\ \/ last.op \in {"upload", "delete", "set_meta", "move"}
       \/ last.op = "create_collection" /\ last.eff = "replace"

\* C32: after every committed upload, delete of an item, move, set_meta and
\* replacing create_collection, the modified_at of the collection it was made
\* on (for a move: of both collections) is not earlier than the start of the
\* operation.
C32_ModifiedAtFollowsMutation ==
    Mutated => /\ Touched_at(last.coll)
               /\ last.op = "move" => Touched_at(last.dcoll)


\* C33: a delete of an href under which the collection holds no item fails,
\* and the item, item_history and collection tables are as they were before.
C33_DeleteOfAbsentFails ==
    [][(last'.op = "delete" /\ ItemRows(DB, last'.coll, last'.href) = {})
          => /\ ~last'.ok
             /\ UNCHANGED <<item, item_history, collection>>]_vars
\* an item was stored and deleted, and a second delete of its href has failed
C33_Witness ==
    /\ last.op = "delete" /\ ~last.ok
    /\ ItemRows(DB, last.coll, last.href) = {}
    /\ HistoryRows(DB, last.coll, last.href) # {}

====
